---- MODULE Spec2Model ----
(***************************************************************************)
(* Verification model of the Drive access layer of Gdrive-management:      *)
(*   - CachedService / RetryableMixin   (src/src/utils/base_service.py)    *)
(*   - DriveService                     (src/src/services/drive_service.py)*)
(*   - DataManager         (src/src/ui/todo_modules/data_manager.py)       *)
(*   - DriveQueryBuilder                (src/src/utils/drive_helpers.py)   *)
(* Each component has its own specification (SpecCache, SpecRetry,         *)
(* SpecStore, SpecDrive, SpecAssign, SpecQuery); the variables of the      *)
(* other components stay idle.                                             *)
(***************************************************************************)
EXTENDS Integers, Sequences, FiniteSets, TLC

VARIABLES
    \* ---- CachedService ----
    cache,        \* self._cache: key -> [data, timestamp]
    cache_ttl,    \* self._cache_ttl (seconds)
    now,          \* datetime.now(), in seconds
    lastSet,      \* history: key -> the last _set_cache of the key not invalidated since
    ret,          \* history: the last cache operation and what it returned
    \* ---- RetryableMixin ----
    max_retries,  \* self.max_retries
    retry_delay,  \* self.retry_delay
    rpc,          \* position inside _retry_request
    attempt,      \* the loop variable of _retry_request
    callLog,      \* history: outcome of every request_func() call of this invocation
    sleeps,       \* history: argument of every time.sleep() of this invocation
    outcome,      \* what the invocation handed to its caller
    \* ---- DataManager and the Drive backend ----
    drive_service, \* self.drive_service: None or the client
    lms_root_id,   \* self.lms_root_id: None or the id of the root folder
    localFiles,    \* the JSON files of data_dir: file name -> content
    drive_id,      \* assignments_drive_id, students_drive_id, submissions_drive_id
    remote,        \* the backend: file id -> [name, parent, mimeType, content]
    nextId,        \* the backend's next fresh file id
    spc,           \* position inside _save_to_local_and_drive
    sv,            \* the running (or last) save: its arguments, locals and history
    loaded,        \* history: the last load and what it returned
    ops,           \* history: number of operations called so far
    synced,        \* history: the last SyncedDataManager.save: its events and result
    pulled,        \* history: the last sync_from_drive and what it did
    \* ---- DriveService over its backend ----
    dfiles,        \* the backend: file id -> [name, parents, folder, rev]
    dnext,         \* the backend's next fresh file id
    dret,          \* history: the last DriveService call, its requests and result
    dops,          \* history: number of DriveService calls so far
    \* ---- DataManager.load_assignments ----
    astored,       \* the assignments held by assignments.json
    aloaded,       \* history: the last load_assignments, its input and result
    \* ---- DriveQueryBuilder ----
    conditions,    \* self.conditions: the clauses added so far
    qcalls,        \* history: the builder calls since construction or reset()
    built,         \* history: what build() returned, if it was the last call
    \* ---- threads calling one shared instance ----
    tpc,           \* thread -> the statement the thread is at
    tloc,          \* thread -> the arguments, locals and history of its call
    tempFile,      \* content of the temp file of _save_to_local_and_drive
    \* ---- DriveOperations.execute_with_pagination ----
    backendPages,  \* the backend: page token -> [files, nextPageToken]
    pager          \* arguments, locals and history of the running call

cacheVars == <<cache, cache_ttl, now, lastSet, ret>>
retryVars == <<max_retries, retry_delay, rpc, attempt, callLog, sleeps, outcome>>
storeVars == <<drive_service, lms_root_id, localFiles, drive_id, remote, nextId,
               spc, sv, loaded, ops, synced, pulled>>

driveVars == <<dfiles, dnext, dret, dops>>
assignVars == <<astored, aloaded>>
queryVars == <<conditions, qcalls, built>>
threadVars == <<tpc, tloc, tempFile>>
pageVars == <<backendPages, pager>>
pureVars == <<assignVars, queryVars, threadVars, pageVars>>

None == "None"

(***************************************************************************)
(* Bounds of the model                                                     *)
(***************************************************************************)
MaxEntries == 2
MaxClock == 3
MaxTtl == 2
MaxRetries == 4
MaxDelay == 3
MaxOps == 3
MaxDriveOps == 2
MaxChunks == 2
MaxAssignments == 3
MaxStamp == 2
MaxClauses == 2
MaxPages == 3
MaxPageFiles == 2
MaxResults == 3

Alphabet == {"a", "b"}

RECURSIVE SeqsOfLen(_)
SeqsOfLen(n) ==
    IF n = 0 THEN {<<>>}
    ELSE {Append(s, c) : s \in SeqsOfLen(n - 1), c \in Alphabet}

SeqsUpTo(n) == UNION {SeqsOfLen(i) : i \in 0..n}

\* cache keys are non-empty strings; a pattern is any string, or None
Keys == {<<"a">>, <<"b">>, <<"a", "b">>, <<"b", "a">>}
\* pattern=None is written NoPattern: a string no key or pattern is equal to
NoPattern == <<None>>
Patterns == {<<>>, <<"a">>, <<"b">>, <<"a", "b">>, NoPattern}
Values == {"v1", "v2"}

EmptyMap == [k \in {} |-> None]

(***************************************************************************)
(* CachedService                                                           *)
(***************************************************************************)

\* Python's `pattern in k` on strings: pattern occurs at some offset of k
PyIn(pattern, k) ==
    \E i \in 1..(Len(k) - Len(pattern) + 1) :
        SubSeq(k, i, i + Len(pattern) - 1) = pattern

\* Python truthiness of the pattern argument: None and "" are falsy
Truthy(pattern) == pattern # NoPattern /\ pattern # <<>>

FreshLe(timestamp, t, ttl) == t - timestamp <= ttl

\* datetime.now() - timestamp < timedelta(seconds=self._cache_ttl)
Fresh(timestamp, t, ttl) == t - timestamp < ttl

\* the dict after `del self._cache[key]`
DelKey(c, key) == [k \in DOMAIN c \ {key} |-> c[k]]

\* the value _get_cached returns
GetCachedResult(c, key, t, ttl) ==
    IF key \in DOMAIN c /\ Fresh(c[key].timestamp, t, ttl)
    THEN c[key].data
    ELSE None

\* the dict _get_cached leaves behind: a stale entry is deleted
GetCachedCache(c, key, t, ttl) ==
    IF key \in DOMAIN c /\ ~Fresh(c[key].timestamp, t, ttl)
    THEN DelKey(c, key)
    ELSE c

\* self._cache[key] = (data, datetime.now())
SetCacheMap(c, key, data, t) ==
    [k \in DOMAIN c \cup {key} |->
        IF k = key THEN [data |-> data, timestamp |-> t] ELSE c[k]]

KeysToRemovePrefix(c, pattern) ==
    {k \in DOMAIN c : Len(pattern) <= Len(k) /\ SubSeq(k, 1, Len(pattern)) = pattern}

\* keys_to_remove = [k for k in self._cache.keys() if pattern in k]
KeysToRemove(c, pattern) == {k \in DOMAIN c : PyIn(pattern, k)}

InvalidateAll(c, pattern) == EmptyMap

\* the dict after _invalidate_cache(pattern)
InvalidateCacheMap(c, pattern) ==
    IF Truthy(pattern)
    THEN [k \in DOMAIN c \ KeysToRemove(c, pattern) |-> c[k]]
    ELSE EmptyMap

\* k contains p as a substring: k = pre . p . suf
Contains(k, p) ==
    \E pre \in SeqsUpTo(Len(k)), suf \in SeqsUpTo(Len(k)) : k = pre \o p \o suf

CacheInit ==
    /\ cache = EmptyMap
    /\ cache_ttl \in 0..MaxTtl
    /\ now = 0
    /\ lastSet = EmptyMap
    /\ ret = [op |-> "init"]

CacheIdle ==
    /\ cache = EmptyMap
    /\ cache_ttl = 0
    /\ now = 0
    /\ lastSet = EmptyMap
    /\ ret = [op |-> "init"]

SetCache(key, data) ==
    /\ key \in DOMAIN lastSet \/ Cardinality(DOMAIN lastSet) < MaxEntries
    /\ cache' = SetCacheMap(cache, key, data, now)
    /\ lastSet' = [k \in DOMAIN lastSet \cup {key} |->
                      IF k = key THEN [data |-> data, at |-> now] ELSE lastSet[k]]
    /\ ret' = [op |-> "set"]
    /\ UNCHANGED <<cache_ttl, now>>

GetCached(key) ==
    /\ cache' = GetCachedCache(cache, key, now, cache_ttl)
    /\ ret' = [op |-> "get", key |-> key,
               val |-> GetCachedResult(cache, key, now, cache_ttl)]
    /\ UNCHANGED <<cache_ttl, now, lastSet>>

InvalidateCache(pattern) ==
    /\ cache' = InvalidateCacheMap(cache, pattern)
    /\ lastSet' = [k \in {x \in DOMAIN lastSet :
                            pattern # NoPattern /\ ~Contains(x, pattern)} |-> lastSet[k]]
    /\ ret' = [op |-> "invalidate", pattern |-> pattern, before |-> DOMAIN cache]
    /\ UNCHANGED <<cache_ttl, now>>

\* the wall clock advances
Tick ==
    /\ now < MaxClock
    /\ now' = now + 1
    /\ ret' = [op |-> "tick"]
    /\ UNCHANGED <<cache, cache_ttl, lastSet>>

(***************************************************************************)
(* RetryableMixin._retry_request                                           *)
(***************************************************************************)

\* what one request_func() call can do: raise, or return a value (None included)
Results == {"r1", None}
CallOutcomes == Results \cup {"raise"}

InRangeOffByOne(att, mr) == att <= mr

\* for attempt in range(self.max_retries)
InRange(att, mr) == att < mr

ShouldRetryAlways(att, mr) == att < mr

\* should_retry = attempt < self.max_retries - 1
ShouldRetry(att, mr) == att < mr - 1

\* delay = self.retry_delay * (2 ** attempt)
Delay(rd, att) == rd * (2 ^ att)

ExceptHandlerReraise(att, mr) ==
    IF ShouldRetry(att, mr) THEN "sleep" ELSE "reraise"

\* the except branch: sleep and go on, or print and return None
ExceptHandler(att, mr) ==
    IF ShouldRetry(att, mr) THEN "sleep" ELSE "return_none"

RetryInit ==
    /\ max_retries \in 0..MaxRetries
    /\ retry_delay \in 1..MaxDelay
    /\ rpc = "idle"
    /\ attempt = 0
    /\ callLog = <<>>
    /\ sleeps = <<>>
    /\ outcome = "pending"

RetryIdle ==
    /\ max_retries = 0
    /\ retry_delay = 1
    /\ rpc = "idle"
    /\ attempt = 0
    /\ callLog = <<>>
    /\ sleeps = <<>>
    /\ outcome = "pending"

\* the for statement: enter the body, or fall out of the loop to `return None`
LoopHead(att) ==
    IF InRange(att, max_retries)
    THEN /\ rpc' = "call"
         /\ outcome' = "pending"
    ELSE /\ rpc' = "done"
         /\ outcome' = None

\* a caller invokes _retry_request(request_func)
RetryInvoke ==
    /\ rpc \in {"idle", "done"}
    /\ attempt' = 0
    /\ callLog' = <<>>
    /\ sleeps' = <<>>
    /\ LoopHead(0)
    /\ UNCHANGED <<max_retries, retry_delay>>

\* try: return request_func()   except Exception: ...
RetryCall ==
    /\ rpc = "call"
    /\ \E res \in CallOutcomes :
        /\ callLog' = Append(callLog, res)
        /\ IF res # "raise"
           THEN /\ rpc' = "done"
                /\ outcome' = res
           ELSE LET h == ExceptHandler(attempt, max_retries) IN
                /\ rpc' = IF h = "sleep" THEN "sleep" ELSE "done"
                /\ outcome' = CASE h = "sleep" -> "pending"
                                [] h = "return_none" -> None
                                [] OTHER -> "raised"
    /\ UNCHANGED <<max_retries, retry_delay, attempt, sleeps>>

\* time.sleep(delay), then the next iteration of the loop
RetrySleep ==
    /\ rpc = "sleep"
    /\ sleeps' = Append(sleeps, Delay(retry_delay, attempt))
    /\ attempt' = attempt + 1
    /\ LoopHead(attempt + 1)
    /\ UNCHANGED <<max_retries, retry_delay, callLog>>


(***************************************************************************)
(* DataManager, SyncedDataManager and the Drive backend they mirror to     *)
(***************************************************************************)

Collections == {"assignments.json", "students.json", "submissions.json"}
SyncedName == "synced.json"
Docs == {"d1", "d2"}
EmptyList == "[]"
RootId == "root1"
\* the id of another folder the user can link as root
OtherRootId == "root2"
FolderMime == "application/vnd.google-apps.folder"
JsonMime == "application/json"

\* file contents: JSON text of a document, text that is no JSON, or no file
Absent == [kind |-> "absent", doc |-> "-"]
Corrupt == [kind |-> "corrupt", doc |-> "-"]

\* json.dump(data, f, indent=2, ensure_ascii=False)
JsonDump(data) == [kind |-> "json", doc |-> data]

\* json.loads(content): the document, or "raise" for text that is no JSON
JsonLoads(content) == IF content.kind = "json" THEN content.doc ELSE "raise"

\* utils.common.save_json_file(filepath, data): the file holds the JSON of data
SaveJsonFile(files, name, data) == [files EXCEPT ![name] = JsonDump(data)]

\* utils.common.load_json_file(filepath, default): the parsed file, or default
\* when the file is absent or unparsable
LoadJsonFile(content, default) ==
    IF content.kind = "json" THEN JsonLoads(content) ELSE default

RemoteConfiguredClientOnly == drive_service # None

\* if self.drive_service and self.lms_root_id
RemoteConfigured == drive_service # None /\ lms_root_id # None

\* the id the backend gives the next created file
FreshId == ToString(nextId)

\* the files named `filename` that list_files(folder_id=self.lms_root_id) shows
\* and that are no folder
NamedInRoot(filename) ==
    {f \in DOMAIN remote :
        /\ remote[f].parent = lms_root_id
        /\ remote[f].name = filename
        /\ remote[f].mimeType # FolderMime}

\* _get_drive_file_id(filename): what it can return, with whether the listing
\* request failed (list_files returned None)
GetDriveFileId(filename) ==
    IF ~RemoteConfigured
    THEN {[id |-> None, issued |-> FALSE, failed |-> FALSE]}
    ELSE {[id |-> None, issued |-> TRUE, failed |-> TRUE]}
         \cup (IF NamedInRoot(filename) = {}
               THEN {[id |-> None, issued |-> TRUE, failed |-> FALSE]}
               ELSE {[id |-> f, issued |-> TRUE, failed |-> FALSE] :
                        f \in NamedInRoot(filename)})

\* the document json.loads gives for the content the backend holds for file_id
RemoteDoc(file_id) == JsonLoads(remote[file_id].content)

\* self.drive_service.download_file_content(file_id): DriveService defines
\* read_file_content and no download_file_content, so the call raises
DownloadFileContent(file_id) == "raise"

LoadNoFallback(local, content, default) ==
    IF content \notin {None, "raise"} /\ JsonLoads(content) # "raise"
    THEN JsonLoads(content)
    ELSE default

\* what _load_from_drive_or_local returns, given the downloaded content (None
\* when nothing was downloaded, "raise" when the remote branch raised)
LoadFromDriveOrLocal(local, content, default) ==
    IF content \notin {None, "raise"} /\ JsonLoads(content) # "raise"
    THEN JsonLoads(content)
    ELSE LoadJsonFile(local, default)

\* the backend after files().update(fileId, media_body) succeeded
RemoteUpdate(file_id, content) == [remote EXCEPT ![file_id].content = content]

\* the backend after files().create(body={name, parents: [parent]}) succeeded
RemoteCreate(name, parent, content) ==
    [f \in DOMAIN remote \cup {FreshId} |->
        IF f = FreshId
        THEN [name |-> name, parent |-> parent, mimeType |-> JsonMime,
              content |-> content]
        ELSE remote[f]]

\* what update_file / upload_file can hand back: a file resource, None, or an
\* exception of the client
CallResults == {"valid", None, "raise"}

\* update_file(file_id, ...) on the backend: it can only succeed on a file that
\* exists
UpdateResults(file_id) ==
    IF file_id \in DOMAIN remote THEN CallResults ELSE {None, "raise"}

\* result and isinstance(result, dict) and result.get('id')
ValidResult(res) == res = "valid"

\* sv: the arguments (coll, data) and locals (file_id) of the save, the place of
\* the mirror step it is at (where), and its history: wrote (the local file was
\* written), called (a remote call was issued), mirrored (a remote call
\* returned a valid result), uploaded (the id the last upload returned, or
\* "failed"; None when there was no upload), fault (the
\* backend or the temp file failed where it could have answered), raised (an
\* exception reached the caller), second (this save directly follows a save of
\* the same collection that saw no fault), clean (nobody else changed the
\* backend since the first of them began), root (lms_root_id when it began),
\* followed (the operation before it was a load of the collection or a
\* sync_from_drive, with the remote configured and every listing answered)
\* loaded: the collection of the last load, what it returned (val), whether it
\* directly follows a save of the collection, whether it issued a request,
\* whether every request it issued failed, whether the listing failed, and the
\* document the backend held for the file it resolved (remoteVal; None when it
\* resolved no file), lms_root_id when it ran (root) and the local file it
\* found (local), whether it listed the root folder to resolve the binding
\* (listed), and the number of the operation it was (at)
NoSave == [coll |-> None, data |-> None, file_id |-> None, where |-> None,
           wrote |-> FALSE, called |-> FALSE, mirrored |-> FALSE, uploaded |-> None,
           fault |-> FALSE, raised |-> FALSE, second |-> FALSE, clean |-> TRUE,
           root |-> None, followed |-> FALSE]
NoLoad == [coll |-> None, val |-> None, afterSave |-> FALSE, issued |-> FALSE,
           failed |-> FALSE, listFailed |-> FALSE, remoteVal |-> None,
           root |-> None, local |-> Absent, listed |-> FALSE, at |-> 0]
NoSynced == [log |-> <<>>, result |-> FALSE]
\* pulled: whether sync_from_drive ran, the collections it found a file for,
\* whether every listing was answered, the collections whose local file it
\* overwrote, its result, whether it issued a request, and lms_root_id when
\* it ran, and the number of the operation it was (at)
NoPull == [called |-> FALSE, found |-> {}, answered |-> TRUE, overwritten |-> {},
           result |-> FALSE, issued |-> FALSE, root |-> None, at |-> 0]

StoreInit ==
    /\ drive_service \in {None, "drive"}
    /\ lms_root_id \in {None, RootId}
    /\ \E old \in {Absent, Corrupt, JsonDump("d1")} :
          localFiles = [c \in Collections \cup {SyncedName} |->
                           IF c = "assignments.json" THEN old ELSE Absent]
    /\ drive_id = [c \in Collections |-> None]
    /\ \E pre \in SUBSET {"assignments.json"} :
          /\ remote = [f \in {ToString(i) : i \in 1..Cardinality(pre)} |->
                          [name |-> "assignments.json", parent |-> RootId,
                           mimeType |-> JsonMime, content |-> JsonDump("d1")]]
          /\ nextId = Cardinality(pre) + 1
    /\ spc = "idle"
    /\ sv = NoSave
    /\ loaded = NoLoad
    /\ ops = 0
    /\ synced = NoSynced
    /\ pulled = NoPull

StoreIdle ==
    /\ drive_service = None
    /\ lms_root_id = None
    /\ localFiles = [c \in Collections \cup {SyncedName} |-> Absent]
    /\ drive_id = [c \in Collections |-> None]
    /\ remote = EmptyMap
    /\ nextId = 1
    /\ spc = "idle"
    /\ sv = NoSave
    /\ loaded = NoLoad
    /\ ops = 0
    /\ synced = NoSynced
    /\ pulled = NoPull

SaveStepsMirrorFirst == <<"mirror", "local">>

\* the two statements of _save_to_local_and_drive, in order: line 184
\* (save_json_file) and lines 186-232 (the mirror step)
SaveSteps == <<"local", "mirror">>

\* the position after the statement `step`
After(step) ==
    IF step = SaveSteps[1] THEN SaveSteps[2] ELSE "done"

KeepBinding(b, c) == b

ClearOtherBindings(b, c) == [x \in DOMAIN b |-> IF x = c THEN b[x] ELSE None]

\* setattr(self, drive_file_id_attr, None)
ClearBinding(b, c) == [b EXCEPT ![c] = None]

HandlerUncaught(where) ==
    IF where = "fallback" THEN "inner" ELSE IF where = "direct" THEN "none" ELSE "outer"

\* which handler catches an exception raised at a place of the mirror step:
\* the update of line 197 and the upload of line 200 are inside the try of line
\* 196 (handler of line 207); the uploads of lines 209 and 217 are caught by the
\* handler of line 225
HandlerOf(where) == IF where \in {"update", "fallback"} THEN "inner" ELSE "outer"

\* save_assignments / save_students / save_submissions is called
SaveBegin(c, data) ==
    /\ spc \in {"idle", "done"}
    /\ ops < MaxOps
    /\ ops' = ops + 1
    /\ spc' = SaveSteps[1]
    /\ sv' = [NoSave EXCEPT !.coll = c, !.data = data, !.root = lms_root_id,
                            !.second = /\ spc = "done"
                                       /\ sv.coll = c
                                       /\ sv.clean
                                       /\ ~sv.fault,
                            !.followed =
                                /\ RemoteConfigured
                                /\ \/ /\ loaded.coll = c /\ loaded.at = ops
                                      /\ ~loaded.listFailed
                                   \/ /\ pulled.called /\ pulled.at = ops
                                      /\ pulled.answered]
    /\ loaded' = NoLoad
    /\ synced' = NoSynced
    /\ pulled' = NoPull
    /\ UNCHANGED <<drive_service, lms_root_id, localFiles, drive_id, remote, nextId>>

\* line 184: save_json_file(filepath, data)
SaveLocal ==
    /\ spc = "local"
    /\ localFiles' = SaveJsonFile(localFiles, sv.coll, sv.data)
    /\ sv' = [sv EXCEPT !.wrote = TRUE]
    /\ spc' = After("local")
    /\ UNCHANGED <<ops, drive_service, lms_root_id, drive_id, remote, nextId, loaded, synced, pulled>>

\* lines 186-195: the configuration test, the temp file (which may fail to be
\* written), the read of the binding
SaveMirror ==
    /\ spc = "mirror"
    /\ IF ~RemoteConfigured
       THEN spc' = After("mirror") /\ UNCHANGED sv
       ELSE \E tempOk \in BOOLEAN :
              IF ~tempOk
              THEN spc' = After("mirror") /\ sv' = [sv EXCEPT !.fault = TRUE]
              ELSE LET file_id == drive_id[sv.coll] IN
                   IF file_id # None
                   THEN /\ spc' = "update"
                        /\ sv' = [sv EXCEPT !.file_id = file_id, !.where = "update"]
                   ELSE /\ spc' = "upload"
                        /\ sv' = [sv EXCEPT !.where = "direct"]
    /\ UNCHANGED <<ops, drive_service, lms_root_id, localFiles, drive_id, remote, nextId,
                   loaded, synced, pulled>>

\* lines 196-199 and 207-208: update_file on the bound id; without a valid result
\* the binding is cleared and the save goes on to upload
SaveUpdate ==
    /\ spc = "update"
    /\ \E res \in UpdateResults(sv.file_id) :
        IF ValidResult(res)
        THEN /\ remote' = RemoteUpdate(sv.file_id, JsonDump(sv.data))
             /\ UNCHANGED drive_id
             /\ spc' = After("mirror")
             /\ sv' = [sv EXCEPT !.called = TRUE, !.mirrored = TRUE]
        ELSE /\ drive_id' = ClearBinding(drive_id, sv.coll)
             /\ UNCHANGED remote
             /\ spc' = "upload"
             /\ sv' = [sv EXCEPT !.called = TRUE,
                                 !.where = IF res = "raise" THEN "handler" ELSE "fallback",
                                 !.fault = sv.file_id \in DOMAIN remote]
    /\ UNCHANGED <<ops, drive_service, lms_root_id, localFiles, nextId, loaded, synced, pulled>>

\* lines 200-206, 209-215, 217-223: upload_file(temp, parent_id=lms_root_id,
\* file_name=filepath.name) and the re-binding; an exception of the upload of
\* line 200 is caught by the handler of line 207, which uploads again
SaveUpload ==
    /\ spc = "upload"
    /\ \E res \in CallResults :
        LET failed == [sv EXCEPT !.called = TRUE, !.fault = TRUE, !.uploaded = "failed"] IN
        IF ValidResult(res)
        THEN /\ remote' = RemoteCreate(sv.coll, lms_root_id, JsonDump(sv.data))
             /\ nextId' = nextId + 1
             /\ drive_id' = [drive_id EXCEPT ![sv.coll] = FreshId]
             /\ spc' = After("mirror")
             /\ sv' = [sv EXCEPT !.called = TRUE, !.mirrored = TRUE, !.uploaded = FreshId]
        ELSE /\ UNCHANGED <<remote, nextId>>
             /\ IF res = None
                THEN UNCHANGED drive_id /\ spc' = After("mirror") /\ sv' = failed
                ELSE CASE HandlerOf(sv.where) = "inner" ->
                            /\ drive_id' = ClearBinding(drive_id, sv.coll)
                            /\ spc' = "upload"
                            /\ sv' = [failed EXCEPT !.where = "handler"]
                       [] HandlerOf(sv.where) = "outer" ->
                            UNCHANGED drive_id /\ spc' = After("mirror") /\ sv' = failed
                       [] OTHER ->
                            /\ UNCHANGED drive_id
                            /\ spc' = "done"
                            /\ sv' = [failed EXCEPT !.raised = TRUE]
    /\ UNCHANGED <<ops, drive_service, lms_root_id, localFiles, loaded, synced, pulled>>

\* _load_from_drive_or_local(file, attr, []), as load_assignments, load_students
\* and load_submissions call it: the binding is resolved by name when it is
\* None, the download is tried when there is an id, and every failure of the
\* remote branch falls through to the local file
Load(c) ==
    /\ spc \in {"idle", "done"}
    /\ ops < MaxOps
    /\ ops' = ops + 1
    /\ \E r \in (IF RemoteConfigured /\ drive_id[c] = None
                 THEN GetDriveFileId(c)
                 ELSE {[id |-> drive_id[c], issued |-> FALSE, failed |-> FALSE]}) :
        LET downloaded == RemoteConfigured /\ r.id # None
            content == IF downloaded THEN DownloadFileContent(r.id) ELSE None
        IN  /\ drive_id' = IF RemoteConfigured
                           THEN [drive_id EXCEPT ![c] = r.id] ELSE drive_id
            /\ loaded' = [coll |-> c,
                          val |-> LoadFromDriveOrLocal(localFiles[c], content, EmptyList),
                          afterSave |-> spc = "done" /\ sv.coll = c,
                          issued |-> r.issued \/ downloaded,
                          failed |-> (r.issued => r.failed)
                                     /\ (downloaded => content \in {None, "raise"}),
                          listFailed |-> r.issued /\ r.failed,
                          remoteVal |-> IF downloaded /\ r.id \in DOMAIN remote
                                        THEN RemoteDoc(r.id) ELSE None,
                          root |-> lms_root_id,
                          local |-> localFiles[c],
                          listed |-> r.issued,
                          at |-> ops + 1]
    /\ spc' = "idle"
    /\ UNCHANGED <<drive_service, lms_root_id, localFiles, remote, nextId, sv, synced, pulled>>

\* the order of the three blocks of sync_from_drive (lines 243, 250, 257)
SyncOrder == <<"assignments.json", "students.json", "submissions.json">>

\* lines 243-262: one block per collection, in order, inside the try of line
\* 238: a bound collection is downloaded, parsed and written to its local
\* file; the first exception leaves the try and skips the blocks that remain
RECURSIVE SyncBlocks(_, _, _)
SyncBlocks(i, ids, st) ==
    IF i > Len(SyncOrder) \/ st.raised
    THEN st
    ELSE LET c == SyncOrder[i]
             content == IF ids[c] # None THEN DownloadFileContent(ids[c]) ELSE None
         IN  SyncBlocks(i + 1, ids,
                 IF content = None
                 THEN st
                 ELSE IF content = "raise" \/ JsonLoads(content) = "raise"
                 THEN [st EXCEPT !.raised = TRUE]
                 ELSE [files |-> SaveJsonFile(st.files, c, JsonLoads(content)),
                       overwritten |-> st.overwritten \cup {c},
                       raised |-> FALSE])

\* sync_from_drive(): the three bindings are resolved by name, then the blocks
\* run; it returns whether some block wrote its local file
SyncFromDrive ==
    /\ spc \in {"idle", "done"}
    /\ ops < MaxOps
    /\ ops' = ops + 1
    /\ IF ~RemoteConfigured
       THEN /\ pulled' = [NoPull EXCEPT !.called = TRUE, !.root = lms_root_id,
                                        !.at = ops + 1]
            /\ UNCHANGED <<drive_id, localFiles>>
       ELSE \E r \in [Collections -> UNION {GetDriveFileId(c) : c \in Collections}] :
              /\ \A c \in Collections : r[c] \in GetDriveFileId(c)
              /\ LET ids == [c \in Collections |-> r[c].id]
                     st == SyncBlocks(1, ids, [files |-> localFiles, overwritten |-> {},
                                               raised |-> FALSE])
                 IN  /\ drive_id' = ids
                     /\ localFiles' = st.files
                     /\ pulled' = [called |-> TRUE,
                                   found |-> {c \in Collections : ids[c] # None},
                                   answered |-> \A c \in Collections : ~r[c].failed,
                                   overwritten |-> st.overwritten,
                                   result |-> st.overwritten # {},
                                   issued |-> \E c \in Collections : r[c].issued,
                                   root |-> lms_root_id,
                                   at |-> ops + 1]
    /\ spc' = "idle"
    /\ UNCHANGED <<drive_service, lms_root_id, remote, nextId, sv, loaded, synced>>

\* BaseDataManager.save(data): True and the file holds the JSON of data, or
\* False (the exception of open is caught) and the file is as it was
BaseSave(old, data) ==
    {[saved |-> TRUE, content |-> JsonDump(data)],
     [saved |-> FALSE, content |-> old]}

\* DriveService.find_file(name, parent): the first file of that name in the
\* parent, None when there is none, or an exception of the request (find_by_name
\* has no retry and no handler)
FindFile(name, parent) ==
    {"raise"}
    \cup (LET found == {f \in DOMAIN remote :
                          remote[f].name = name /\ remote[f].parent = parent}
          IN  IF found = {} THEN {None} ELSE found)

\* SyncedDataManager.save(data), for a manager of file SyncedName configured
\* with the same client and parent folder
SyncedSave(data) ==
    /\ spc \in {"idle", "done"}
    /\ ops < MaxOps
    /\ ops' = ops + 1
    /\ \E b \in BaseSave(localFiles[SyncedName], data) :
        /\ localFiles' = [localFiles EXCEPT ![SyncedName] = b.content]
        /\ IF ~(RemoteConfigured /\ b.saved)
           THEN /\ synced' = [log |-> <<"local_write">>, result |-> b.saved]
                /\ UNCHANGED <<remote, nextId>>
           ELSE \E existing \in FindFile(SyncedName, lms_root_id) :
                  CASE existing = "raise" ->
                         /\ synced' = [log |-> <<"local_write", "find">>, result |-> b.saved]
                         /\ UNCHANGED <<remote, nextId>>
                    [] existing = None ->
                         /\ synced' = [log |-> <<"local_write", "find", "upload">>,
                                       result |-> b.saved]
                         /\ \E res \in CallResults :
                              IF ValidResult(res)
                              THEN /\ remote' = RemoteCreate(SyncedName, lms_root_id, b.content)
                                   /\ nextId' = nextId + 1
                              ELSE UNCHANGED <<remote, nextId>>
                    [] OTHER ->
                         /\ synced' = [log |-> <<"local_write", "find", "update">>,
                                       result |-> b.saved]
                         /\ \E res \in UpdateResults(existing) :
                              /\ remote' = IF ValidResult(res)
                                           THEN RemoteUpdate(existing, b.content)
                                           ELSE remote
                              /\ UNCHANGED nextId
    /\ UNCHANGED <<drive_service, lms_root_id, drive_id, spc, sv, loaded, pulled>>

\* StorageManager._unlink_drive_folder(): lms_root_id becomes None, then the
\* students are loaded again, now from the local file
UnlinkDriveFolder ==
    /\ spc \in {"idle", "done"}
    /\ ops < MaxOps
    /\ ops' = ops + 1
    /\ lms_root_id' = None
    /\ loaded' = [NoLoad EXCEPT
                    !.coll = "students.json",
                    !.val = LoadFromDriveOrLocal(localFiles["students.json"], None,
                                                 EmptyList),
                    !.local = localFiles["students.json"],
                    !.at = ops + 1]
    /\ spc' = "idle"
    /\ UNCHANGED <<drive_service, localFiles, drive_id, remote, nextId, sv, synced,
                   pulled>>

\* the ids _get_drive_file_id(filename) can return when lms_root_id is root:
\* None (no such file, or the listing failed) or a file of that name in root
ResolvedIn(root, filename) ==
    {None} \cup {f \in DOMAIN remote :
                    /\ remote[f].parent = root
                    /\ remote[f].name = filename
                    /\ remote[f].mimeType # FolderMime}

\* the bindings the three loads of on_select can leave: a binding that is set
\* is kept (line 148: if not file_id), one that is None is resolved by name
\* under the root just linked
BindingsAfterLink(b, root) ==
    [c \in DOMAIN b |-> IF drive_service # None /\ b[c] = None
                         THEN ResolvedIn(root, c) ELSE {b[c]}]

\* on_select(folder) of the folder picker (storage_manager.py:214-221):
\* _save_lms_root(folder['id']), then load_assignments, load_students and
\* load_submissions
LinkDriveFolder(folder_id) ==
    /\ spc \in {"idle", "done"}
    /\ ops < MaxOps
    /\ ops' = ops + 1
    /\ lms_root_id' = folder_id
    /\ \E ids \in [Collections -> DOMAIN remote \cup {None}] :
          /\ \A c \in Collections : ids[c] \in BindingsAfterLink(drive_id, folder_id)[c]
          /\ drive_id' = ids
          /\ loaded' = [NoLoad EXCEPT
                          !.coll = "submissions.json",
                          !.val = LoadFromDriveOrLocal(
                                      localFiles["submissions.json"],
                                      IF drive_service # None /\ ids["submissions.json"] # None
                                      THEN DownloadFileContent(ids["submissions.json"])
                                      ELSE None,
                                      EmptyList),
                          !.issued = drive_service # None,
                          !.listed = drive_service # None
                                     /\ drive_id["submissions.json"] = None,
                          !.root = folder_id,
                          !.local = localFiles["submissions.json"],
                          !.at = ops + 1]
    /\ spc' = "idle"
    /\ UNCHANGED <<drive_service, localFiles, remote, nextId, sv, synced, pulled>>

\* a DataManager with the client and a root folder, whose assignments binding
\* is unset or was resolved by a load to the file the root holds
LinkInit ==
    /\ drive_service = "drive"
    /\ lms_root_id = RootId
    /\ localFiles = [c \in Collections \cup {SyncedName} |-> Absent]
    /\ \E pre \in SUBSET {"assignments.json"} :
          /\ remote = [f \in {ToString(i) : i \in 1..Cardinality(pre)} |->
                          [name |-> "assignments.json", parent |-> RootId,
                           mimeType |-> JsonMime, content |-> JsonDump("d1")]]
          /\ nextId = Cardinality(pre) + 1
          /\ drive_id \in {[c \in Collections |->
                               IF c = "assignments.json" THEN id ELSE None] :
                               id \in {None} \cup DOMAIN remote}
    /\ spc = "idle"
    /\ sv = NoSave
    /\ loaded = NoLoad
    /\ ops = 0
    /\ synced = NoSynced
    /\ pulled = NoPull

\* somebody else deletes a file on the backend
ExternalDelete(f) ==
    /\ f \in DOMAIN remote
    /\ ops < MaxOps
    /\ ops' = ops + 1
    /\ remote' = [g \in DOMAIN remote \ {f} |-> remote[g]]
    /\ sv' = IF spc = "idle" THEN sv ELSE [sv EXCEPT !.clean = FALSE]
    /\ UNCHANGED <<drive_service, lms_root_id, localFiles, drive_id, nextId, spc,
                   loaded, synced, pulled>>

(***************************************************************************)
(* DriveService and the Drive backend behind self.service                  *)
(***************************************************************************)

\* DriveService.__init__(service, cache_ttl=300, max_retries=3): the retry
\* budget and retry_delay=1 of every DriveService
DefaultMaxRetries == 3
DefaultRetryDelay == 1

\* ids and names are strings, written as sequences of characters
RootFolder == <<"root">>
FolderA == <<"A">>
FolderB == <<"B">>
\* an id that contains the id of FolderA
FolderAB == <<"A", "B">>
FileX == <<"X">>
NoId == <<>>
Names == {<<"x">>, <<"y">>}

\* page_size=100 and page_token=None of list_files; PageSize is the default as
\* it is formatted into the cache key
DefaultPageSize == 100
PageSize == ToString(DefaultPageSize)
NoToken == None

\* page sizes a caller asks for: the default, and one small enough for a
\* folder of the backend to span two pages
PageSizes == {1, DefaultPageSize}

FilesKeyNoToken(folder_id, page_size, page_token) ==
    <<"files_">> \o folder_id \o <<"_", page_size>>

\* cache_key = f"files_{folder_id}_{page_size}_{page_token}"
FilesKey(folder_id, page_size, page_token) ==
    <<"files_">> \o folder_id \o <<"_", page_size, "_", page_token>>

\* cache_key = f"fileinfo_{file_id}"
FileInfoKey(file_id) == <<"fileinfo_">> \o file_id

\* cache_key = f"search_{query_text}_{folder_id}"
SearchKey(query_text, folder_id) == <<"search_">> \o query_text \o <<"_">> \o folder_id

CacheHitNever(c, key, t, ttl) == FALSE

\* cached = self._get_cached(cache_key); if cached: the entry is there and fresh
\* (every value DriveService caches is truthy)
CacheHit(c, key, t, ttl) == key \in DOMAIN c /\ Fresh(c[key].timestamp, t, ttl)

\* the id the backend gives the next created file
DriveFreshId == <<"N", ToString(dnext)>>

\* q = "'<folder_id>' in parents and trashed=false"
Children(files, folder_id) == {f \in DOMAIN files : folder_id \in files[f].parents}

\* one entry of files().list with fields id, name, mimeType, modifiedTime, size
ListEntry(files, f) ==
    [id |-> f, name |-> files[f].name, folder |-> files[f].folder, rev |-> files[f].rev]

\* orderBy = "folder,name": folders first, then by name; files of the same
\* name in the backend's own order (that of their ids)
NameRank(name) ==
    CASE name = <<"A">> -> 1 [] name = <<"B">> -> 2 [] name = <<"x">> -> 3 [] OTHER -> 4

IdRank(f) ==
    CASE f = FolderA -> 1 [] f \in {FolderB, FolderAB} -> 2 [] f = FileX -> 3
      [] OTHER -> 3 + CHOOSE n \in 1..(MaxDriveOps + 2) : f = <<"N", ToString(n)>>

Before(files, f, g) ==
    LET kf == <<IF files[f].folder THEN 0 ELSE 1, NameRank(files[f].name), IdRank(f)>>
        kg == <<IF files[g].folder THEN 0 ELSE 1, NameRank(files[g].name), IdRank(g)>>
    IN  \/ kf[1] < kg[1]
        \/ kf[1] = kg[1] /\ kf[2] < kg[2]
        \/ kf[1] = kg[1] /\ kf[2] = kg[2] /\ kf[3] < kg[3]

\* the place of f in the ordered listing of folder_id, counted from 1
Position(files, folder_id, f) ==
    1 + Cardinality({g \in Children(files, folder_id) : Before(files, g, f)})

\* a page token names the number of entries of the pages before it
TokenOffset(page_token) ==
    IF page_token = NoToken THEN 0
    ELSE CHOOSE o \in 1..(MaxDriveOps + 5) : ToString(o) = page_token

\* formatted_result of list_files: the page of at most page_size entries that
\* starts at page_token, and the token of the next page, None on the last page
ListResponse(files, folder_id, page_size, page_token) ==
    LET first == TokenOffset(page_token)
        last == first + page_size
    IN  [files |-> {ListEntry(files, f) :
                      f \in {g \in Children(files, folder_id) :
                               /\ first < Position(files, folder_id, g)
                               /\ Position(files, folder_id, g) <= last}},
         nextPageToken |-> IF last < Cardinality(Children(files, folder_id))
                           THEN ToString(last) ELSE NoToken]

\* files().get(fileId, fields=DriveFileFields.DETAILED)
GetResponse(files, f) ==
    [id |-> f, name |-> files[f].name, folder |-> files[f].folder,
     rev |-> files[f].rev, parents |-> files[f].parents]

\* files().list for name contains query_text, optionally inside folder_id
SearchResponse(files, query_text, folder_id) ==
    {GetResponse(files, f) :
        f \in {g \in DOMAIN files :
                 /\ PyIn(query_text, files[g].name)
                 /\ folder_id # NoPattern => folder_id \in files[g].parents}}

\* _retry_request(request_func) when the backend fails the first k attempts and
\* answers afterwards: the call of attempt k returns if the loop gets there
RetryAnswers(k, mr) == InRange(k, mr)

\* a request issued outside _retry_request is attempted once
DirectAnswers(k) == k = 0

Min(a, b) == IF a < b THEN a ELSE b

\* the requests one _retry_request invocation issues: a failed attempt for each
\* of the first k that the loop reaches, then the answered one
AttemptLog(req, k, mr) ==
    [i \in 1..Min(k, mr) |-> <<req, "fail">>]
    \o (IF RetryAnswers(k, mr) THEN << <<req, "ok">> >> ELSE <<>>)

\* for parent in parents: self._invalidate_cache(parent)
RECURSIVE InvalidateEach(_, _)
InvalidateEach(c, parents) ==
    IF parents = {} THEN c
    ELSE LET parent == CHOOSE x \in parents : TRUE
         IN  InvalidateEach(InvalidateCacheMap(c, parent), parents \ {parent})

\* dret: the last call (op), its arguments, whether the cache answered it
\* (hit), the number of attempts the backend failed before answering (fails),
\* the kind of result (res: "ok", None, "False", "True", "empty" or "raise"), the
\* value returned (val), the requests it issued, in order (reqs), whether it
\* invalidated cache entries (invalidated), and for delete_file whether the
\* metadata fetch returned the file (info); allOk: every mutating call so far
\* returned its success value; depth: the max_depth given to get_folder_tree;
\* link: the link given to resolve_drive_link; pageSize, token: the page_size
\* and page_token given to list_files
NoRet == [op |-> "init", file |-> NoId, folder |-> NoId, name |-> NoId,
          useCache |-> FALSE, hit |-> FALSE, fails |-> 0, res |-> None,
          val |-> None, reqs |-> <<>>, invalidated |-> FALSE, info |-> FALSE,
          allOk |-> TRUE, depth |-> 0, link |-> <<>>, pageSize |-> 0,
          token |-> NoToken]

\* the mutating methods of DriveService
Mutations == {"create_folder", "upload_file", "update_file", "move_file",
              "rename_file", "delete_file"}

\* the record of a call, with the history of the calls before it
Ret(r) ==
    [r EXCEPT !.allOk = dret.allOk /\ (r.op \in Mutations => r.res \in {"ok", "True"})]

DriveIdle ==
    /\ dfiles = EmptyMap
    /\ dnext = 1
    /\ dret = NoRet
    /\ dops = 0

\* the cache after list_files of both folders and get_file_info of the file
WarmCache(files) ==
    [key \in {FilesKey(FolderA, PageSize, NoToken), FilesKey(FolderB, PageSize, NoToken),
              FileInfoKey(FileX)} |->
        [data |-> IF key = FileInfoKey(FileX) THEN GetResponse(files, FileX)
                  ELSE IF key = FilesKey(FolderA, PageSize, NoToken)
                  THEN ListResponse(files, FolderA, DefaultPageSize, NoToken)
                  ELSE ListResponse(files, FolderB, DefaultPageSize, NoToken),
         timestamp |-> 0]]

\* the cache after list_files(root, page_size=1) and its follow-up with the
\* token of the first page
PagedCache(files) ==
    LET page1 == ListResponse(files, RootFolder, 1, NoToken)
    IN  [key \in {FilesKey(RootFolder, ToString(1), NoToken),
                  FilesKey(RootFolder, ToString(1), page1.nextPageToken)} |->
            [data |-> IF key = FilesKey(RootFolder, ToString(1), NoToken) THEN page1
                      ELSE ListResponse(files, RootFolder, 1, page1.nextPageToken),
             timestamp |-> 0]]

\* cache_ttl of the service, in ticks of the clock (one tick = the 300 s of
\* the default)
DriveTtl == 1

\* a DriveService built with the defaults over a backend that holds two
\* folders in the root and one file in the first of them; the cache is empty,
\* or holds what the backend answered to earlier reads
DriveInit ==
    /\ dfiles = [f \in {FolderA, FolderB, FileX} |->
                    IF f = FileX
                    THEN [name |-> <<"x">>, parents |-> {FolderA}, folder |-> FALSE, rev |-> 0]
                    ELSE [name |-> f, parents |-> {RootFolder}, folder |-> TRUE, rev |-> 0]]
    /\ dnext = 1
    /\ dret = NoRet
    /\ dops = 0
    /\ cache \in {EmptyMap, WarmCache(dfiles), PagedCache(dfiles)}
    /\ cache_ttl = DriveTtl
    /\ now = 0
    /\ lastSet = EmptyMap
    /\ ret = [op |-> "init"]
    /\ max_retries = DefaultMaxRetries
    /\ retry_delay = DefaultRetryDelay
    /\ rpc = "idle"
    /\ attempt = 0
    /\ callLog = <<>>
    /\ sleeps = <<>>
    /\ outcome = "pending"

\* the cache after list_files of the root and of both folders and
\* get_file_info of the file, for the backend of OverlapInit
WarmOverlapCache(files) ==
    [key \in {FilesKey(RootFolder, PageSize, NoToken), FilesKey(FolderA, PageSize, NoToken),
              FilesKey(FolderAB, PageSize, NoToken), FileInfoKey(FileX)} |->
        [data |-> IF key = FileInfoKey(FileX) THEN GetResponse(files, FileX)
                  ELSE ListResponse(files, SubSeq(key, 2, Len(key) - 4),
                                    DefaultPageSize, NoToken),
         timestamp |-> 0]]

\* the same service over a backend where the id of the second folder contains
\* the id of the first (ids are opaque strings)
OverlapInit ==
    /\ dfiles = [f \in {FolderA, FolderAB, FileX} |->
                    IF f = FileX
                    THEN [name |-> <<"x">>, parents |-> {FolderA}, folder |-> FALSE, rev |-> 0]
                    ELSE [name |-> IF f = FolderA THEN <<"A">> ELSE <<"B">>,
                          parents |-> {RootFolder}, folder |-> TRUE, rev |-> 0]]
    /\ dnext = 1
    /\ dret = NoRet
    /\ dops = 0
    /\ cache \in {EmptyMap, WarmOverlapCache(dfiles)}
    /\ cache_ttl = DriveTtl
    /\ now = 0
    /\ lastSet = EmptyMap
    /\ ret = [op |-> "init"]
    /\ max_retries = DefaultMaxRetries
    /\ retry_delay = DefaultRetryDelay
    /\ rpc = "idle"
    /\ attempt = 0
    /\ callLog = <<>>
    /\ sleeps = <<>>
    /\ outcome = "pending"

\* a caller calls a public method of the service
DriveCall ==
    /\ dops < MaxDriveOps
    /\ dops' = dops + 1
    /\ UNCHANGED <<cache_ttl, now, lastSet, ret>>

Folders == {f \in DOMAIN dfiles : dfiles[f].folder}
\* the number of attempts of a request the backend fails before it answers:
\* none, one, or every attempt of the retry budget
FailCounts == {0, 1, max_retries}
\* the same for a request that is not retried: it is answered, or fails
DirectFailCounts == {0, 1}

\* the clock advances by one tick between two calls
DriveTick ==
    /\ dops < MaxDriveOps
    /\ dops' = dops + 1
    /\ now' = now + 1
    /\ dret' = Ret([NoRet EXCEPT !.op = "tick"])
    /\ UNCHANGED <<cache, cache_ttl, lastSet, ret, dfiles, dnext>>

\* the page tokens a caller can pass for the folder and page size: None, or
\* the nextPageToken the call before returned for them
PageTokens(folder_id, page_size) ==
    {NoToken} \cup
    (IF /\ dret.op = "list_files" /\ dret.res = "ok"
        /\ dret.folder = folder_id /\ dret.pageSize = page_size
     THEN {dret.val.nextPageToken} ELSE {})

\* list_files(folder_id, page_size, page_token, use_cache)
ListFiles(folder_id, page_size, page_token, use_cache, k) ==
    LET cache_key == FilesKey(folder_id, ToString(page_size), page_token)
        hit == use_cache /\ CacheHit(cache, cache_key, now, cache_ttl)
        looked == IF use_cache
                  THEN GetCachedCache(cache, cache_key, now, cache_ttl) ELSE cache
        answered == RetryAnswers(k, max_retries)
        formatted_result == ListResponse(dfiles, folder_id, page_size, page_token)
    IN  /\ DriveCall
        /\ hit => k = 0
        /\ cache' = IF hit THEN cache
                    ELSE IF answered
                    THEN SetCacheMap(looked, cache_key, formatted_result, now)
                    ELSE looked
        /\ dret' = Ret([NoRet EXCEPT
                      !.op = "list_files", !.folder = folder_id,
                      !.pageSize = page_size, !.token = page_token,
                      !.useCache = use_cache, !.hit = hit, !.fails = k,
                      !.res = IF hit \/ answered THEN "ok" ELSE None,
                      !.val = IF hit THEN cache[cache_key].data
                              ELSE IF answered THEN formatted_result ELSE None,
                      !.reqs = IF hit THEN <<>> ELSE AttemptLog("list", k, max_retries)])
        /\ UNCHANGED <<dfiles, dnext>>

ShouldCacheSearchAlways(use_cache, files) == files # {}

\* if use_cache and files
ShouldCacheSearch(use_cache, files) == use_cache /\ files # {}

\* search_files(query_text, folder_id, use_cache)
SearchFiles(query_text, folder_id, use_cache, k) ==
    LET cache_key == SearchKey(query_text, folder_id)
        hit == use_cache /\ CacheHit(cache, cache_key, now, cache_ttl)
        looked == IF use_cache
                  THEN GetCachedCache(cache, cache_key, now, cache_ttl) ELSE cache
        answered == RetryAnswers(k, max_retries)
        files == IF answered THEN SearchResponse(dfiles, query_text, folder_id) ELSE {}
    IN  /\ DriveCall
        /\ hit => k = 0
        /\ cache' = IF hit THEN cache
                    ELSE IF ShouldCacheSearch(use_cache, files)
                    THEN SetCacheMap(looked, cache_key, files, now)
                    ELSE looked
        /\ dret' = Ret([NoRet EXCEPT
                      !.op = "search_files", !.name = query_text, !.folder = folder_id,
                      !.useCache = use_cache, !.hit = hit, !.fails = k,
                      !.res = IF hit THEN "ok" ELSE IF files = {} THEN "empty" ELSE "ok",
                      !.val = IF hit THEN cache[cache_key].data ELSE files,
                      !.reqs = IF hit THEN <<>> ELSE AttemptLog("list", k, max_retries)])
        /\ UNCHANGED <<dfiles, dnext>>

\* what get_file_info(file_id, use_cache) returns and leaves in the cache when
\* the backend fails the first k attempts: [hit, answered, file, cache]
GetFileInfoResult(c, file_id, use_cache, k) ==
    LET cache_key == FileInfoKey(file_id)
        hit == use_cache /\ CacheHit(c, cache_key, now, cache_ttl)
        looked == IF use_cache THEN GetCachedCache(c, cache_key, now, cache_ttl) ELSE c
        answered == file_id \in DOMAIN dfiles /\ RetryAnswers(k, max_retries)
    IN  IF hit
        THEN [hit |-> TRUE, answered |-> TRUE, file |-> c[cache_key].data, cache |-> c,
              reqs |-> <<>>]
        ELSE IF answered
        THEN [hit |-> FALSE, answered |-> TRUE, file |-> GetResponse(dfiles, file_id),
              cache |-> SetCacheMap(looked, cache_key, GetResponse(dfiles, file_id), now),
              reqs |-> AttemptLog("get", k, max_retries)]
        ELSE [hit |-> FALSE, answered |-> FALSE, file |-> None, cache |-> looked,
              reqs |-> AttemptLog("get", max_retries, max_retries)]

\* get_file_info(file_id, use_cache)
GetFileInfo(file_id, use_cache, k) ==
    LET r == GetFileInfoResult(cache, file_id, use_cache, k)
    IN  /\ DriveCall
        /\ r.hit => k = 0
        /\ cache' = r.cache
        /\ dret' = Ret([NoRet EXCEPT
                      !.op = "get_file_info", !.file = file_id,
                      !.useCache = use_cache, !.hit = r.hit, !.fails = k,
                      !.res = IF r.answered THEN "ok" ELSE None,
                      !.val = r.file, !.reqs = r.reqs])
        /\ UNCHANGED <<dfiles, dnext>>

\* A link is a sequence of tokens.  A word token is a run of characters of
\* [a-zA-Z0-9_-]; "X", "A" and "B" are the ids of the backend's files (21
\* characters each), "s" is a 20-character word.
Host == "https://drive.google.com"

WordTokens == {"X", "A", "B", "s", "view"}

\* len() of one token
Width(token) ==
    CASE token = "/folders/" -> 9
      [] token = "/file/d/" -> 8
      [] token \in {"?id=", "&id="} -> 4
      [] token = "/" -> 1
      [] token = Host -> 24
      [] token = "view" -> 4
      [] token = "s" -> 20
      [] OTHER -> 21

\* len(url)
RECURSIVE UrlLen(_)
UrlLen(url) == IF url = <<>> THEN 0 ELSE Width(Head(url)) + UrlLen(Tail(url))

\* "/" in url
HasSlash(url) ==
    \E i \in 1..Len(url) : url[i] \in {"/folders/", "/file/d/", "/", Host}

\* links a caller can pass to resolve_drive_link
Links == {<<Host, "/folders/", "A">>,
          <<Host, "/file/d/", "X", "/", "view">>,
          <<Host, "/", "view", "?id=", "X">>,
          <<Host, "/file/d/", "X", "/folders/", "A">>,
          <<"X">>,
          <<"s">>,
          <<"s", "?id=">>,
          <<Host, "/", "view">>}

UrlPatternsFileFirst == <<{"/file/d/"}, {"/folders/"}, {"?id=", "&id="}>>

\* patterns: /folders/([a-zA-Z0-9_-]+), /file/d/([a-zA-Z0-9_-]+),
\* [?&]id=([a-zA-Z0-9_-]+); each is written as the tokens its literal part matches
UrlPatterns == <<{"/folders/"}, {"/file/d/"}, {"?id=", "&id="}>>

\* the longest run of word tokens of url that starts at position i
RECURSIVE WordRun(_, _)
WordRun(url, i) ==
    IF i > Len(url) \/ url[i] \notin WordTokens THEN <<>>
    ELSE <<url[i]>> \o WordRun(url, i + 1)

\* re.search(pattern, url): group(1) of the leftmost match, NoId for no match
ReSearch(pattern, url) ==
    LET hits == {i \in 1..Len(url) : url[i] \in pattern /\ WordRun(url, i + 1) # <<>>}
    IN  IF hits = {} THEN NoId
        ELSE WordRun(url, (CHOOSE i \in hits : \A j \in hits : i <= j) + 1)

\* StringUtils.extract_id_from_url(url): the id, or None (written NoId)
ExtractIdFromUrl(url) ==
    LET matched == {p \in 1..Len(UrlPatterns) : ReSearch(UrlPatterns[p], url) # NoId}
    IN  IF matched # {}
        THEN ReSearch(UrlPatterns[CHOOSE p \in matched : \A q \in matched : p <= q], url)
        ELSE IF UrlLen(url) > 20 /\ ~HasSlash(url) THEN url
        ELSE NoId

\* resolve_drive_link(link): (file_id, info), or (None, None)
ResolveDriveLink(link, k) ==
    /\ DriveCall
    /\ IF ExtractIdFromUrl(link) = NoId
       THEN /\ k = 0
            /\ dret' = Ret([NoRet EXCEPT !.op = "resolve_drive_link", !.link = link])
            /\ UNCHANGED cache
       ELSE LET file_id == ExtractIdFromUrl(link)
                r == GetFileInfoResult(cache, file_id, TRUE, k)
            IN  /\ r.hit => k = 0
                /\ cache' = r.cache
                /\ dret' = Ret([NoRet EXCEPT
                              !.op = "resolve_drive_link", !.file = file_id,
                              !.link = link,
                              !.useCache = TRUE, !.hit = r.hit, !.fails = k,
                              !.res = IF r.answered THEN "ok" ELSE None,
                              !.val = r.file, !.reqs = r.reqs])
    /\ UNCHANGED <<dfiles, dnext>>

\* read_file_content(file_id): the download is issued once, inside a try
ReadFileContent(file_id, k) ==
    LET answered == file_id \in DOMAIN dfiles /\ DirectAnswers(k)
    IN  /\ DriveCall
        /\ dret' = Ret([NoRet EXCEPT
                      !.op = "read_file_content", !.file = file_id, !.fails = k,
                      !.res = IF answered THEN "ok" ELSE None,
                      !.val = IF answered THEN <<"text", dfiles[file_id].rev>> ELSE None,
                      !.reqs = << <<"get_media", IF answered THEN "ok" ELSE "fail">> >>])
        /\ UNCHANGED <<cache, dfiles, dnext>>

\* DriveOperations.find_by_name(service, name, parent_id): files[0] of a
\* one-entry page, None when the page is empty; request.execute() is called
\* once, with no handler around it
FindByName(files, name, parent_id) ==
    LET found == {f \in Children(files, parent_id) : files[f].name = name}
    IN  IF found = {} THEN {NoId} ELSE found

\* find_file(name, parent_id)
FindFileByName(name, parent_id, k) ==
    /\ DriveCall
    /\ IF DirectAnswers(k)
       THEN \E f \in FindByName(dfiles, name, parent_id) :
              dret' = Ret([NoRet EXCEPT
                         !.op = "find_file", !.name = name, !.folder = parent_id,
                         !.fails = k, !.file = f,
                         !.res = IF f = NoId THEN None ELSE "ok",
                         !.reqs = << <<"list", "ok">> >>])
       ELSE dret' = Ret([NoRet EXCEPT
                       !.op = "find_file", !.name = name, !.folder = parent_id,
                       !.fails = k, !.res = "raise",
                       !.reqs = << <<"list", "fail">> >>])
    /\ UNCHANGED <<cache, dfiles, dnext>>

AtDepthLimitStrict(current_depth, max_depth) == current_depth > max_depth

\* if current_depth >= max_depth
AtDepthLimit(current_depth, max_depth) == current_depth >= max_depth

\* DriveOperations.list_folders_only(service, parent_id)
ListFoldersOnly(files, parent_id) == {g \in Children(files, parent_id) : files[g].folder}

\* the list requests issued below the given folders
RECURSIVE SumCalls(_)
SumCalls(folders) ==
    IF folders = {} THEN 0
    ELSE LET folder == CHOOSE x \in folders : TRUE
         IN  folder.children.calls + SumCalls(folders \ {folder})

\* get_folder_tree(folder_id, max_depth, current_depth) when every request is
\* answered: None at the depth limit, else the sub-folders, each with its own
\* tree as 'children'; calls counts the list requests issued
RECURSIVE FolderTree(_, _, _, _)
FolderTree(files, folder_id, max_depth, current_depth) ==
    IF AtDepthLimit(current_depth, max_depth)
    THEN [none |-> TRUE, list |-> {}, calls |-> 0]
    ELSE LET folders ==
                 {[id |-> f, name |-> files[f].name,
                   children |-> FolderTree(files, f, max_depth, current_depth + 1)] :
                     f \in ListFoldersOnly(files, folder_id)}
         IN  [none |-> FALSE, list |-> folders, calls |-> 1 + SumCalls(folders)]

Depths == 0..2

\* get_folder_tree(folder_id, max_depth): list_folders_only is called with no
\* retry and no handler, so a failed request raises out of the recursion
GetFolderTree(folder_id, max_depth, k) ==
    LET tree == FolderTree(dfiles, folder_id, max_depth, 0)
    IN  /\ DriveCall
        /\ tree.none => k = 0
        /\ dret' = Ret([NoRet EXCEPT
                      !.op = "get_folder_tree", !.folder = folder_id, !.fails = k,
                      !.depth = max_depth,
                      !.res = IF tree.none THEN None
                              ELSE IF DirectAnswers(k) THEN "ok" ELSE "raise",
                      !.val = IF ~tree.none /\ DirectAnswers(k) THEN tree ELSE None,
                      !.reqs = IF tree.none THEN <<>>
                               ELSE IF DirectAnswers(k)
                               THEN [n \in 1..tree.calls |-> <<"list", "ok">>]
                               ELSE << <<"list", "fail">> >>])
        /\ UNCHANGED <<cache, dfiles, dnext>>

\* the backend after files().create(body={name, parents: [parent_id]})
DriveCreate(files, name, parent_id, folder) ==
    [f \in DOMAIN files \cup {DriveFreshId} |->
        IF f = DriveFreshId
        THEN [name |-> name, parents |-> {parent_id}, folder |-> folder, rev |-> 0]
        ELSE files[f]]

ShouldInvalidateNever(result, parent_id) == FALSE

\* _execute_file_mutation: if result and parent_id
ShouldInvalidate(result, parent_id) == result /\ Truthy(parent_id)

\* create_folder(folder_name, parent_id), through _execute_file_mutation
CreateFolder(folder_name, parent_id, k) ==
    LET answered == RetryAnswers(k, max_retries)
    IN  /\ DriveCall
        /\ dfiles' = IF answered
                     THEN DriveCreate(dfiles, folder_name, parent_id, TRUE) ELSE dfiles
        /\ dnext' = IF answered THEN dnext + 1 ELSE dnext
        /\ cache' = IF ShouldInvalidate(answered, parent_id)
                    THEN InvalidateCacheMap(cache, parent_id) ELSE cache
        /\ dret' = Ret([NoRet EXCEPT
                      !.op = "create_folder", !.name = folder_name, !.folder = parent_id,
                      !.fails = k,
                      !.file = IF answered THEN DriveFreshId ELSE NoId,
                      !.res = IF answered THEN "ok" ELSE None,
                      !.invalidated = ShouldInvalidate(answered, parent_id),
                      !.reqs = AttemptLog("create", k, max_retries)])

\* for f in files: if f.get('name') == folder_name and f.get('mimeType') ==
\* 'application/vnd.google-apps.folder': return f -- the entries that pass
FoldersNamed(files, folder_name) == {f \in files : f.name = folder_name /\ f.folder}

\* FolderHelper.get_or_create_folder(parent_id, folder_name) over the service:
\* list_files(folder_id=parent_id), whose None is read as an empty listing,
\* then the first folder of that name, or create_folder
GetOrCreateFolder(parent_id, folder_name, k1, k2) ==
    LET cache_key == FilesKey(parent_id, PageSize, NoToken)
        hit == CacheHit(cache, cache_key, now, cache_ttl)
        looked == GetCachedCache(cache, cache_key, now, cache_ttl)
        listed == RetryAnswers(k1, max_retries)
        fetched == ListResponse(dfiles, parent_id, DefaultPageSize, NoToken)
        files == IF hit THEN cache[cache_key].data.files
                 ELSE IF listed THEN fetched.files ELSE {}
        afterList == IF hit THEN cache
                     ELSE IF listed THEN SetCacheMap(looked, cache_key, fetched, now)
                     ELSE looked
        found == FoldersNamed(files, folder_name)
        first == CHOOSE f \in found : \A g \in found : IdRank(f.id) <= IdRank(g.id)
        created == found = {} /\ RetryAnswers(k2, max_retries)
    IN  /\ DriveCall
        /\ hit => k1 = 0
        /\ found # {} => k2 = 0
        /\ dfiles' = IF created
                     THEN DriveCreate(dfiles, folder_name, parent_id, TRUE) ELSE dfiles
        /\ dnext' = IF created THEN dnext + 1 ELSE dnext
        /\ cache' = IF ShouldInvalidate(created, parent_id)
                    THEN InvalidateCacheMap(afterList, parent_id) ELSE afterList
        /\ dret' = Ret([NoRet EXCEPT
                      !.op = "get_or_create_folder", !.name = folder_name,
                      !.folder = parent_id, !.useCache = TRUE, !.hit = hit,
                      !.fails = k1,
                      !.file = IF found # {} THEN first.id
                               ELSE IF created THEN DriveFreshId ELSE NoId,
                      !.res = IF found # {} \/ created THEN "ok" ELSE None,
                      !.invalidated = ShouldInvalidate(created, parent_id),
                      !.reqs = (IF hit THEN <<>> ELSE AttemptLog("list", k1, max_retries))
                               \o (IF found = {}
                                   THEN AttemptLog("create", k2, max_retries) ELSE <<>>)])

InvalidateAfterAnyUpload(completed) == TRUE

\* self._invalidate_cache(parent_id) follows the chunk loop inside the try: it
\* runs only when the loop ended with a response
InvalidateAfterUpload(completed) == completed

\* the requests of upload_file: files().create(media_body=media) is built once
\* and request.next_chunk() is called until a response arrives or a call
\* raises; `chunks` chunks, of which chunk failAt raises (0: none does)
SessionLog(chunks, failAt) ==
    << <<"session", "ok">> >>
    \o [i \in 1..(IF failAt = 0 THEN chunks ELSE failAt) |->
           <<"chunk", IF i = failAt THEN "fail" ELSE "ok">>]

\* upload_file(file_path, parent_id, file_name): readable is whether
\* MediaFileUpload could open file_path
UploadFile(file_name, parent_id, readable, chunks, failAt) ==
    LET completed == readable /\ failAt = 0
    IN  /\ DriveCall
        /\ ~readable => chunks = 1 /\ failAt = 0
        /\ dfiles' = IF completed
                     THEN DriveCreate(dfiles, file_name, parent_id, FALSE) ELSE dfiles
        /\ dnext' = IF completed THEN dnext + 1 ELSE dnext
        /\ cache' = IF readable /\ InvalidateAfterUpload(completed)
                    THEN InvalidateCacheMap(cache, parent_id) ELSE cache
        /\ dret' = Ret([NoRet EXCEPT
                      !.op = "upload_file", !.name = file_name, !.folder = parent_id,
                      !.fails = IF completed THEN 0 ELSE 1,
                      !.file = IF completed THEN DriveFreshId ELSE NoId,
                      !.res = IF completed THEN "ok" ELSE None,
                      !.invalidated = readable /\ InvalidateAfterUpload(completed),
                      !.reqs = IF readable
                               THEN SessionLog(chunks, failAt)
                               ELSE <<>>])

\* update_file(file_id, file_path, new_name): one request inside a try; the
\* content changes, and the name when new_name is given
UpdateFile(file_id, new_name, k) ==
    LET answered == file_id \in DOMAIN dfiles /\ DirectAnswers(k)
    IN  /\ DriveCall
        /\ dfiles' = IF answered
                     THEN [dfiles EXCEPT ![file_id].rev = @ + 1,
                                         ![file_id].name = IF new_name = NoId THEN @
                                                           ELSE new_name]
                     ELSE dfiles
        /\ cache' = IF answered THEN InvalidateCacheMap(cache, file_id) ELSE cache
        /\ dret' = Ret([NoRet EXCEPT
                      !.op = "update_file", !.file = file_id, !.name = new_name,
                      !.fails = k,
                      !.res = IF answered THEN "ok" ELSE None,
                      !.invalidated = answered,
                      !.reqs = << <<"update", IF answered THEN "ok" ELSE "fail">> >>])
        /\ UNCHANGED dnext

\* the backend after files().update(fileId, addParents=new_parent_id,
\* removeParents=<all previous parents>)
DriveMove(files, file_id, new_parent_id) ==
    [files EXCEPT ![file_id].parents = {new_parent_id}]

\* move_file(file_id, new_parent_id): the parents are read and replaced inside
\* _retry_request; after a success the parents are read again, outside any
\* retry or handler (reread: whether that request is answered), and the cache
\* is invalidated for each of them and for new_parent_id
MoveFile(file_id, new_parent_id, k, reread) ==
    LET answered == file_id \in DOMAIN dfiles /\ RetryAnswers(k, max_retries)
        moved == DriveMove(dfiles, file_id, new_parent_id)
    IN  /\ DriveCall
        /\ new_parent_id \notin dfiles[file_id].parents
        /\ ~answered => reread
        /\ dfiles' = IF answered THEN moved ELSE dfiles
        /\ cache' = IF answered /\ reread
                    THEN InvalidateCacheMap(
                             InvalidateEach(cache, moved[file_id].parents), new_parent_id)
                    ELSE cache
        /\ dret' = Ret([NoRet EXCEPT
                      !.op = "move_file", !.file = file_id, !.folder = new_parent_id,
                      !.fails = k,
                      !.res = IF ~answered THEN None
                              ELSE IF reread THEN "ok" ELSE "raise",
                      !.val = IF answered THEN dfiles[file_id].parents ELSE None,
                      !.invalidated = answered /\ reread,
                      !.reqs = AttemptLog("move", k, max_retries)
                               \o (IF answered
                                   THEN << <<"get", IF reread THEN "ok" ELSE "fail">> >>
                                   ELSE <<>>)])
        /\ UNCHANGED dnext

RenamePatternsParentsOnly(parents, file_id) == parents

\* the patterns rename_file invalidates after a success: every parent the
\* response names, then file_id
RenamePatterns(parents, file_id) == parents \cup {file_id}

\* rename_file(file_id, new_name): on success the cache is invalidated for the
\* parents the response names and for the file id
RenameFile(file_id, new_name, k) ==
    LET answered == file_id \in DOMAIN dfiles /\ RetryAnswers(k, max_retries)
    IN  /\ DriveCall
        /\ dfiles' = IF answered THEN [dfiles EXCEPT ![file_id].name = new_name]
                     ELSE dfiles
        /\ cache' = IF answered
                    THEN InvalidateEach(cache,
                                        RenamePatterns(dfiles[file_id].parents, file_id))
                    ELSE cache
        /\ dret' = Ret([NoRet EXCEPT
                      !.op = "rename_file", !.file = file_id, !.name = new_name,
                      !.fails = k,
                      !.res = IF answered THEN "ok" ELSE None,
                      !.invalidated = answered,
                      !.reqs = AttemptLog("rename", k, max_retries)])
        /\ UNCHANGED dnext

\* the order of the two requests of delete_file: the metadata fetch of line
\* 231, then the delete of line 237
DeleteSteps == <<"get", "delete">>

DeletePatternsFileOnly(file_info, file_id) == {file_id}

\* the patterns delete_file invalidates after a successful delete: every
\* parent of file_info (when the fetch returned it), then file_id
DeletePatterns(file_info, file_id) ==
    (IF file_info.answered THEN file_info.file.parents ELSE {}) \cup {file_id}

\* delete_file(file_id): k1 and k2 are the attempts the backend fails of the
\* metadata fetch and of the delete
DeleteFile(file_id, k1, k2) ==
    LET file_info == GetFileInfoResult(cache, file_id, FALSE, k1)
        success == file_id \in DOMAIN dfiles /\ RetryAnswers(k2, max_retries)
        log == [get |-> file_info.reqs, delete |-> AttemptLog("delete", k2, max_retries)]
    IN  /\ DriveCall
        /\ dfiles' = IF success THEN [f \in DOMAIN dfiles \ {file_id} |-> dfiles[f]]
                     ELSE dfiles
        /\ cache' = IF success
                    THEN InvalidateEach(file_info.cache, DeletePatterns(file_info, file_id))
                    ELSE file_info.cache
        /\ dret' = Ret([NoRet EXCEPT
                      !.op = "delete_file", !.file = file_id,
                      !.fails = k2,
                      !.info = file_info.answered,
                      !.res = IF success THEN "True" ELSE "False",
                      !.val = IF file_info.answered THEN file_info.file.parents ELSE {},
                      !.invalidated = success,
                      !.reqs = log[DeleteSteps[1]] \o log[DeleteSteps[2]]])
        /\ UNCHANGED dnext

(***************************************************************************)
(* DataManager.load_assignments: the identifier repair                     *)
(***************************************************************************)
\* identifiers found in stored assignments; NoId stands for a missing 'id' key
StoredIds == {<<"a">>, <<"b">>}

StoredAssignments == {[id |-> i] : i \in StoredIds \cup {NoId}}

StoredLists == UNION {[1..n -> StoredAssignments] : n \in 0..MaxAssignments}

\* datetime.datetime.now().timestamp() of every iteration of the loop
Stamps(n) == {ts \in [1..n -> 1..MaxStamp] :
                 \A i \in 1..n, j \in 1..n : i <= j => ts[i] <= ts[j]}

\* if 'id' not in assignment
LacksId(assignment) == assignment.id = NoId

\* str(datetime.datetime.now().timestamp()) + str(i)
GeneratedId(stamp, i) == <<ToString(stamp)>> \o <<ToString(i)>>

\* the loop of load_assignments over enumerate(assignments), i counted from 0
RepairIds(assignments, ts) ==
    [n \in 1..Len(assignments) |->
        IF LacksId(assignments[n])
        THEN [assignments[n] EXCEPT !.id = GeneratedId(ts[n], n - 1)]
        ELSE assignments[n]]

\* modified
Modified(assignments) == \E n \in 1..Len(assignments) : LacksId(assignments[n])

NoAssignLoad == [ran |-> FALSE, input |-> <<>>, val |-> <<>>, saved |-> FALSE]

AssignInit ==
    /\ astored \in StoredLists
    /\ aloaded = NoAssignLoad

AssignIdle ==
    /\ astored = <<>>
    /\ aloaded = NoAssignLoad


\* load_assignments(): the stored list with every missing id filled in, saved
\* when an id was filled in
LoadAssignments ==
    \E ts \in Stamps(Len(astored)) :
        LET assignments == RepairIds(astored, ts) IN
        /\ aloaded' = [ran |-> TRUE, input |-> astored, val |-> assignments,
                       saved |-> Modified(astored)]
        /\ astored' = IF Modified(astored) THEN assignments ELSE astored

(***************************************************************************)
(* DriveQueryBuilder (src/src/utils/drive_helpers.py)                      *)
(***************************************************************************)
\* Texts are sequences of tokens; "'" is the single quote and "\\" the
\* backslash, every other token is text free of both.
Quote == "'"
Backslash == "\\"

\* the arguments a caller passes to the builder
QueryArgs == {<<"a">>, <<Quote>>, <<"a", Quote, "b">>}

\* text.replace("'", "\\'")
RECURSIVE EscapeQuotes(_)
EscapeQuotes(text) ==
    IF text = <<>> THEN <<>>
    ELSE (IF Head(text) = Quote THEN <<Backslash, Quote>> ELSE <<Head(text)>>)
         \o EscapeQuotes(Tail(text))

\* " and ".join(conditions)
RECURSIVE JoinAnd(_)
JoinAnd(clauses) ==
    IF Len(clauses) = 1 THEN clauses[1]
    ELSE clauses[1] \o <<" and ">> \o JoinAnd(Tail(clauses))

\* the clause each method appends
InParentsClause(parent_id) == <<Quote>> \o parent_id \o <<Quote, " in parents">>
NotTrashedClause == <<"trashed=false">>
NameEqualsClause(name) == <<"name = ", Quote>> \o EscapeQuotes(name) \o <<Quote>>
NameContainsClause(query) == <<"name contains ", Quote>> \o EscapeQuotes(query) \o <<Quote>>
MimeTypeClause(mime_type) == <<"mimeType=", Quote>> \o mime_type \o <<Quote>>
ModifiedAfterClause(date) == <<"modifiedTime > ", Quote>> \o date \o <<Quote>>

FolderMimeType == <<"application/vnd.google-apps.folder">>

NoBuilt == [called |-> FALSE, none |-> FALSE, text |-> <<>>]

QueryInit ==
    /\ conditions = <<>>
    /\ qcalls = <<>>
    /\ built = NoBuilt

QueryIdle == QueryInit

\* no thread is running
ThreadIdle ==
    /\ tpc = <<>>
    /\ tloc = <<>>
    /\ tempFile = [kind |-> "absent", doc |-> "-"]

\* no paginated query is running
PageIdle ==
    /\ backendPages = <<>>
    /\ pager = <<>>

PureIdle == AssignIdle /\ QueryIdle /\ ThreadIdle /\ PageIdle

\* self.conditions.append(clause); return self
AddCondition(method, arg, clause) ==
    /\ Len(conditions) < MaxClauses
    /\ conditions' = Append(conditions, clause)
    /\ qcalls' = Append(qcalls, [method |-> method, arg |-> arg])
    /\ built' = NoBuilt

InParents(parent_id) == AddCondition("in_parents", parent_id, InParentsClause(parent_id))
NotTrashed == AddCondition("not_trashed", <<>>, NotTrashedClause)
NameEquals(name) == AddCondition("name_equals", name, NameEqualsClause(name))
NameContains(query) == AddCondition("name_contains", query, NameContainsClause(query))
MimeType(mime_type) == AddCondition("mime_type", mime_type, MimeTypeClause(mime_type))
IsFolder == AddCondition("mime_type", FolderMimeType, MimeTypeClause(FolderMimeType))
ModifiedAfter(date) == AddCondition("modified_after", date, ModifiedAfterClause(date))

\* build(): " and ".join(self.conditions) if self.conditions else None
Build ==
    /\ built' = IF conditions # <<>>
                THEN [called |-> TRUE, none |-> FALSE, text |-> JoinAnd(conditions)]
                ELSE [called |-> TRUE, none |-> TRUE, text |-> <<>>]
    /\ UNCHANGED <<conditions, qcalls>>

\* reset(): self.conditions = []
Reset ==
    /\ conditions' = <<>>
    /\ qcalls' = <<>>
    /\ built' = NoBuilt


(***************************************************************************)
(* Two threads in _save_to_local_and_drive of one DataManager              *)
(* (src/src/ui/todo_modules/data_manager.py)                               *)
(***************************************************************************)
\* The method takes no lock: the threads interleave between its statements.
\* Both save the same collection, so they share the local file, the temp file
\* temp_<name> and the binding.
Threads == {"t1", "t2"}
SavedCollection == "assignments.json"

\* tloc[t] of a saving thread: its data, its local file_id, the place of the
\* mirror step it is at (where), and whether the disk or the backend failed
\* one of its calls that could have succeeded (fault)
SaveRaceInit ==
    /\ drive_service = "drive"
    /\ lms_root_id = RootId
    /\ localFiles = [c \in Collections \cup {SyncedName} |-> Absent]
    /\ drive_id = [c \in Collections |-> None]
    /\ remote = EmptyMap
    /\ nextId = 1
    /\ spc = "idle"
    /\ sv = NoSave
    /\ loaded = NoLoad
    /\ ops = 0
    /\ synced = NoSynced
    /\ pulled = NoPull
    /\ tpc = [t \in Threads |-> "local"]
    /\ tloc \in [Threads -> {[data |-> d, file_id |-> None, where |-> None,
                              fault |-> FALSE] : d \in Docs}]
    /\ tempFile = Absent

SaveRaceFrame == UNCHANGED <<drive_service, lms_root_id, spc, sv, loaded, ops, synced, pulled>>

\* line 184: save_json_file(filepath, data)
ThreadSaveLocal(t) ==
    /\ tpc[t] = "local"
    /\ localFiles' = SaveJsonFile(localFiles, SavedCollection, tloc[t].data)
    /\ tpc' = [tpc EXCEPT ![t] = "temp"]
    /\ UNCHANGED <<tloc, tempFile, drive_id, remote, nextId>>
    /\ SaveRaceFrame

\* lines 186-191: the configuration test and the temp file, which may fail to
\* be written (the handler of line 225 then ends the mirror step)
ThreadWriteTemp(t) ==
    /\ tpc[t] = "temp"
    /\ IF ~RemoteConfigured
       THEN tpc' = [tpc EXCEPT ![t] = "done"] /\ UNCHANGED <<tloc, tempFile>>
       ELSE \E tempOk \in BOOLEAN :
              IF tempOk
              THEN /\ tempFile' = JsonDump(tloc[t].data)
                   /\ tpc' = [tpc EXCEPT ![t] = "read"]
                   /\ UNCHANGED tloc
              ELSE /\ tloc' = [tloc EXCEPT ![t].fault = TRUE]
                   /\ tpc' = [tpc EXCEPT ![t] = "finally"]
                   /\ UNCHANGED tempFile
    /\ UNCHANGED <<localFiles, drive_id, remote, nextId>>
    /\ SaveRaceFrame

\* lines 193-195: file_id = getattr(self, drive_file_id_attr); if file_id
ThreadReadBinding(t) ==
    /\ tpc[t] = "read"
    /\ LET file_id == drive_id[SavedCollection] IN
       IF file_id # None
       THEN /\ tpc' = [tpc EXCEPT ![t] = "update"]
            /\ tloc' = [tloc EXCEPT ![t].file_id = file_id, ![t].where = "update"]
       ELSE /\ tpc' = [tpc EXCEPT ![t] = "upload"]
            /\ tloc' = [tloc EXCEPT ![t].where = "direct"]
    /\ UNCHANGED <<localFiles, tempFile, drive_id, remote, nextId>>
    /\ SaveRaceFrame

\* what a call that sends the temp file can hand back: nothing valid once the
\* other thread has unlinked the file
SendResults(results) == IF tempFile = Absent THEN results \ {"valid"} ELSE results

\* lines 196-199 and 207-208: update_file(file_id, temp) on the id the thread
\* read; without a valid result the binding is cleared and the thread goes on
\* to upload
ThreadUpdate(t) ==
    /\ tpc[t] = "update"
    /\ \E res \in SendResults(UpdateResults(tloc[t].file_id)) :
        IF ValidResult(res)
        THEN /\ remote' = RemoteUpdate(tloc[t].file_id, tempFile)
             /\ UNCHANGED <<drive_id, tloc>>
             /\ tpc' = [tpc EXCEPT ![t] = "finally"]
        ELSE /\ drive_id' = ClearBinding(drive_id, SavedCollection)
             /\ UNCHANGED remote
             /\ tpc' = [tpc EXCEPT ![t] = "upload"]
             /\ tloc' = [tloc EXCEPT
                           ![t].where = IF res = "raise" THEN "handler" ELSE "fallback",
                           ![t].fault = @ \/ (tempFile # Absent
                                              /\ tloc[t].file_id \in DOMAIN remote)]
    /\ UNCHANGED <<localFiles, tempFile, nextId>>
    /\ SaveRaceFrame

\* lines 200-206, 209-215, 217-223: upload_file(temp, parent_id=lms_root_id,
\* file_name=filepath.name); if result: setattr(self, attr, result.get('id'))
ThreadUpload(t) ==
    /\ tpc[t] = "upload"
    /\ \E res \in SendResults(CallResults) :
        LET failed == [tloc EXCEPT ![t].fault = @ \/ tempFile # Absent] IN
        IF ValidResult(res)
        THEN /\ remote' = RemoteCreate(SavedCollection, lms_root_id, tempFile)
             /\ nextId' = nextId + 1
             /\ drive_id' = [drive_id EXCEPT ![SavedCollection] = FreshId]
             /\ tpc' = [tpc EXCEPT ![t] = "finally"]
             /\ UNCHANGED tloc
        ELSE /\ UNCHANGED <<remote, nextId>>
             /\ IF res = "raise" /\ HandlerOf(tloc[t].where) = "inner"
                THEN /\ drive_id' = ClearBinding(drive_id, SavedCollection)
                     /\ tpc' = [tpc EXCEPT ![t] = "upload"]
                     /\ tloc' = [failed EXCEPT ![t].where = "handler"]
                ELSE /\ UNCHANGED drive_id
                     /\ tpc' = [tpc EXCEPT ![t] = "finally"]
                     /\ tloc' = failed
    /\ UNCHANGED <<localFiles, tempFile>>
    /\ SaveRaceFrame

\* lines 227-232: finally: if temp_file and temp_file.exists(): temp_file.unlink()
ThreadUnlinkTemp(t) ==
    /\ tpc[t] = "finally"
    /\ tempFile' = Absent
    /\ tpc' = [tpc EXCEPT ![t] = "done"]
    /\ UNCHANGED <<tloc, localFiles, drive_id, remote, nextId>>
    /\ SaveRaceFrame


(***************************************************************************)
(* Two threads on one CachedService (src/src/utils/base_service.py)        *)
(***************************************************************************)
\* The cache is a plain dict and the methods take no lock: a thread can be
\* switched between any two statements of a method, and between two steps of
\* an iteration.  A single dict operation (in, [], del, store, clear) is
\* atomic.  Each thread makes one call.
RaceKeys == {<<"a">>, <<"a", "b">>}
RacePatterns == {<<"a">>, <<"b">>, NoPattern}
RaceTtl == 1
RaceNow == 1

\* tloc[t] of a thread on the cache: the method and its arguments, the
\* locals of _get_cached (val, ts) and of _invalidate_cache (size: the size
\* of the dict when the iteration began; seen: the keys iterated; remove:
\* keys_to_remove), and the outcome (res: "pending", "data", None or "raise")
NoCall == [op |-> "none", key |-> <<>>, pattern |-> <<>>, val |-> None, ts |-> 0,
           size |-> 0, seen |-> {}, remove |-> {}, res |-> "pending"]

\* a cache that holds, for some of the keys, an entry that is fresh or expired
CacheRaceInit ==
    /\ \E held \in SUBSET RaceKeys : \E stamp \in [held -> 0..RaceNow] :
          cache = [k \in held |-> [data |-> "v1", timestamp |-> stamp[k]]]
    /\ cache_ttl = RaceTtl
    /\ now = RaceNow
    /\ lastSet = EmptyMap
    /\ ret = [op |-> "init"]
    /\ tpc = [t \in Threads |-> "idle"]
    /\ tloc = [t \in Threads |-> NoCall]
    /\ tempFile = Absent

CacheRaceFrame == UNCHANGED <<cache_ttl, now, lastSet, ret, tempFile>>

Finish(t, res) ==
    /\ tpc' = [tpc EXCEPT ![t] = "done"]
    /\ tloc' = [tloc EXCEPT ![t].res = res]

\* a thread calls _get_cached(key)
ThreadGetCached(t, key) ==
    /\ tpc[t] = "idle"
    /\ tpc' = [tpc EXCEPT ![t] = "contains"]
    /\ tloc' = [tloc EXCEPT ![t] = [NoCall EXCEPT !.op = "get", !.key = key]]
    /\ UNCHANGED cache
    /\ CacheRaceFrame

\* line 12: if key in self._cache
ThreadContains(t) ==
    /\ tpc[t] = "contains"
    /\ IF tloc[t].key \in DOMAIN cache
       THEN tpc' = [tpc EXCEPT ![t] = "read"] /\ UNCHANGED tloc
       ELSE Finish(t, None)
    /\ UNCHANGED cache
    /\ CacheRaceFrame

\* line 13: data, timestamp = self._cache[key]; KeyError when the key is gone
ThreadRead(t) ==
    /\ tpc[t] = "read"
    /\ IF tloc[t].key \in DOMAIN cache
       THEN /\ tpc' = [tpc EXCEPT ![t] = "test"]
            /\ tloc' = [tloc EXCEPT ![t].val = cache[tloc[t].key].data,
                                    ![t].ts = cache[tloc[t].key].timestamp]
       ELSE Finish(t, "raise")
    /\ UNCHANGED cache
    /\ CacheRaceFrame

\* lines 14-15: the freshness test, return data
ThreadTest(t) ==
    /\ tpc[t] = "test"
    /\ IF Fresh(tloc[t].ts, now, cache_ttl)
       THEN Finish(t, "data")
       ELSE tpc' = [tpc EXCEPT ![t] = "del"] /\ UNCHANGED tloc
    /\ UNCHANGED cache
    /\ CacheRaceFrame

\* del self._cache[key] succeeds when the key is in the dict
DelSucceeds(c, key) == key \in DOMAIN c

\* lines 16-17: del self._cache[key]; return None; KeyError when the key is gone
ThreadDel(t) ==
    /\ tpc[t] = "del"
    /\ IF DelSucceeds(cache, tloc[t].key)
       THEN cache' = DelKey(cache, tloc[t].key) /\ Finish(t, None)
       ELSE UNCHANGED cache /\ Finish(t, "raise")
    /\ CacheRaceFrame

\* lines 19-20: _set_cache(key, data), one dict store
ThreadSetCache(t, key, data) ==
    /\ tpc[t] = "idle"
    /\ cache' = SetCacheMap(cache, key, data, now)
    /\ tpc' = [tpc EXCEPT ![t] = "done"]
    /\ tloc' = [tloc EXCEPT ![t] = [NoCall EXCEPT !.op = "set", !.key = key, !.res = None]]
    /\ CacheRaceFrame

\* lines 22-23 and 27-28: _invalidate_cache(pattern): the iteration over the
\* keys begins, or the dict is cleared
ThreadInvalidate(t, pattern) ==
    /\ tpc[t] = "idle"
    /\ IF Truthy(pattern)
       THEN /\ tpc' = [tpc EXCEPT ![t] = "scan"]
            /\ tloc' = [tloc EXCEPT ![t] = [NoCall EXCEPT !.op = "invalidate",
                                              !.pattern = pattern,
                                              !.size = Cardinality(DOMAIN cache)]]
            /\ UNCHANGED cache
       ELSE /\ cache' = EmptyMap
            /\ tpc' = [tpc EXCEPT ![t] = "done"]
            /\ tloc' = [tloc EXCEPT ![t] = [NoCall EXCEPT !.op = "invalidate",
                                              !.pattern = pattern, !.res = None]]
    /\ CacheRaceFrame

\* line 24: one step of [k for k in self._cache.keys() if pattern in k]: the
\* iterator raises RuntimeError when the dict changed size since it began
ThreadScan(t) ==
    /\ tpc[t] = "scan"
    /\ LET unseen == DOMAIN cache \ tloc[t].seen IN
       IF Cardinality(DOMAIN cache) # tloc[t].size
       THEN Finish(t, "raise")
       ELSE IF unseen = {}
       THEN tpc' = [tpc EXCEPT ![t] = "remove"] /\ UNCHANGED tloc
       ELSE \E k \in unseen :
              /\ tloc' = [tloc EXCEPT ![t].seen = @ \cup {k},
                                      ![t].remove = IF PyIn(tloc[t].pattern, k)
                                                    THEN @ \cup {k} ELSE @]
              /\ UNCHANGED tpc
    /\ UNCHANGED cache
    /\ CacheRaceFrame

\* lines 25-26: for key in keys_to_remove: del self._cache[key]
ThreadRemove(t) ==
    /\ tpc[t] = "remove"
    /\ IF tloc[t].remove = {}
       THEN UNCHANGED cache /\ Finish(t, None)
       ELSE \E k \in tloc[t].remove :
              IF DelSucceeds(cache, k)
              THEN /\ cache' = DelKey(cache, k)
                   /\ tloc' = [tloc EXCEPT ![t].remove = @ \ {k}]
                   /\ UNCHANGED tpc
              ELSE UNCHANGED cache /\ Finish(t, "raise")
    /\ CacheRaceFrame


(***************************************************************************)
(* Two threads on one DriveService: list_files and create_folder           *)
(* (src/src/services/drive_service.py)                                     *)
(***************************************************************************)
\* Each thread makes one call.  A thread can be switched between the cache
\* lookup, the backend request and the cache update of its call; the cache
\* methods themselves are taken as atomic here.
\* tloc[t]: the method (op), its arguments, the page fetched (val) and the
\* outcome (res: "pending", "ok" or None)
NoDriveCall == [op |-> "none", folder |-> NoId, name |-> NoId, useCache |-> FALSE,
                val |-> None, res |-> "pending"]

ListRaceInit ==
    /\ tpc = [t \in Threads |-> "idle"]
    /\ tloc = [t \in Threads |-> NoDriveCall]
    /\ tempFile = Absent

ListRaceFrame == UNCHANGED <<cache_ttl, now, lastSet, ret, dret, dops, tempFile>>

\* a thread calls list_files(folder_id, use_cache=use_cache)
ThreadListFiles(t, folder_id, use_cache) ==
    /\ tpc[t] = "idle"
    /\ tpc' = [tpc EXCEPT ![t] = "lookup"]
    /\ tloc' = [tloc EXCEPT ![t] = [NoDriveCall EXCEPT !.op = "list_files",
                                      !.folder = folder_id, !.useCache = use_cache]]
    /\ UNCHANGED <<cache, dfiles, dnext>>
    /\ ListRaceFrame

\* lines 24-29: the key, and with use_cache the lookup: a hit returns
ThreadLookup(t) ==
    /\ tpc[t] = "lookup"
    /\ LET cache_key == FilesKey(tloc[t].folder, PageSize, NoToken) IN
       IF tloc[t].useCache /\ CacheHit(cache, cache_key, now, cache_ttl)
       THEN /\ tpc' = [tpc EXCEPT ![t] = "done"]
            /\ tloc' = [tloc EXCEPT ![t].val = cache[cache_key].data, ![t].res = "ok"]
            /\ UNCHANGED cache
       ELSE /\ tpc' = [tpc EXCEPT ![t] = "fetch"]
            /\ cache' = IF tloc[t].useCache
                        THEN GetCachedCache(cache, cache_key, now, cache_ttl) ELSE cache
            /\ UNCHANGED tloc
    /\ UNCHANGED <<dfiles, dnext>>
    /\ ListRaceFrame

\* lines 31-32: the listing request through _retry_request: the page the
\* backend holds at that moment, or None after the last failed attempt
ThreadFetch(t) ==
    /\ tpc[t] = "fetch"
    /\ \E answered \in BOOLEAN :
          IF answered
          THEN /\ tpc' = [tpc EXCEPT ![t] = "store"]
               /\ tloc' = [tloc EXCEPT ![t].val = ListResponse(dfiles, tloc[t].folder,
                                                               DefaultPageSize, NoToken)]
          ELSE /\ tpc' = [tpc EXCEPT ![t] = "done"]
               /\ tloc' = [tloc EXCEPT ![t].res = None]
    /\ UNCHANGED <<cache, dfiles, dnext>>
    /\ ListRaceFrame

\* lines 34-41: if result is not None: self._set_cache(cache_key,
\* formatted_result); return formatted_result
ThreadStore(t) ==
    /\ tpc[t] = "store"
    /\ cache' = SetCacheMap(cache, FilesKey(tloc[t].folder, PageSize, NoToken),
                            tloc[t].val, now)
    /\ tpc' = [tpc EXCEPT ![t] = "done"]
    /\ tloc' = [tloc EXCEPT ![t].res = "ok"]
    /\ UNCHANGED <<dfiles, dnext>>
    /\ ListRaceFrame

\* a thread calls create_folder(folder_name, parent_id)
ThreadCreateFolder(t, folder_name, parent_id) ==
    /\ tpc[t] = "idle"
    /\ tpc' = [tpc EXCEPT ![t] = "request"]
    /\ tloc' = [tloc EXCEPT ![t] = [NoDriveCall EXCEPT !.op = "create_folder",
                                      !.folder = parent_id, !.name = folder_name]]
    /\ UNCHANGED <<cache, dfiles, dnext>>
    /\ ListRaceFrame

\* line 104: result = self._retry_request(request_func, operation_name)
ThreadRequest(t) ==
    /\ tpc[t] = "request"
    /\ \E answered \in BOOLEAN :
          IF answered
          THEN /\ dfiles' = DriveCreate(dfiles, tloc[t].name, tloc[t].folder, TRUE)
               /\ dnext' = dnext + 1
               /\ tpc' = [tpc EXCEPT ![t] = "invalidate"]
               /\ UNCHANGED tloc
          ELSE /\ UNCHANGED <<dfiles, dnext>>
               /\ tpc' = [tpc EXCEPT ![t] = "done"]
               /\ tloc' = [tloc EXCEPT ![t].res = None]
    /\ UNCHANGED cache
    /\ ListRaceFrame

\* lines 106-109: if result and parent_id: self._invalidate_cache(parent_id);
\* return result
ThreadInvalidateParent(t) ==
    /\ tpc[t] = "invalidate"
    /\ cache' = IF ShouldInvalidate(TRUE, tloc[t].folder)
                THEN InvalidateCacheMap(cache, tloc[t].folder) ELSE cache
    /\ tpc' = [tpc EXCEPT ![t] = "done"]
    /\ tloc' = [tloc EXCEPT ![t].res = "ok"]
    /\ UNCHANGED <<dfiles, dnext>>
    /\ ListRaceFrame


(***************************************************************************)
(* DriveOperations.execute_with_pagination (src/src/utils/drive_helpers.py)*)
(***************************************************************************)
\* The backend answers a list request for a page token with the files of
\* that page and the token of the next page; None stands for no token.  The
\* files of a page are named after its token and their place in the page.
NextTokens == {"t1", "t2"}
AllTokens == {NoToken} \cup NextTokens

PageFiles(token, n) == [i \in 1..n |-> <<token, i>>]

Backends ==
    [AllTokens -> [n : 0..MaxPageFiles, nextPageToken : AllTokens]]

\* response of request.execute() for page_token
Response(pages, page_token) ==
    [files |-> PageFiles(page_token, pages[page_token].n),
     nextPageToken |-> pages[page_token].nextPageToken]

\* max_results is <<>> for None and <<m>> for the number m
MaxResultsArgs == {<<>>} \cup {<<m>> : m \in 0..MaxResults}

ReachedMaxStrict(max_results, results) ==
    max_results # <<>> /\ max_results[1] # 0 /\ Len(results) > max_results[1]

\* if max_results and len(results) >= max_results
ReachedMax(max_results, results) ==
    max_results # <<>> /\ max_results[1] # 0 /\ Len(results) >= max_results[1]

\* results[:max_results]
Truncate(results, m) == SubSeq(results, 1, IF m < Len(results) THEN m ELSE Len(results))

\* pager: the argument max_results, the locals results and page_token, where
\* the call is (pc: "loop" at the head of the while loop, "done" after it
\* returned or raised), and its history: the tokens it requested, in order
\* (requests), how it ended (res: "pending", "ok" or "raise") and what it
\* returned (out)
PageInit ==
    /\ backendPages \in Backends
    /\ \E max_results \in MaxResultsArgs :
          pager = [pc |-> "loop", max_results |-> max_results, results |-> <<>>,
                   page_token |-> NoToken, requests |-> <<>>, res |-> "pending",
                   out |-> <<>>]

\* lines 96-113: one iteration of the while loop: the request for page_token
\* (whose exception leaves the function), results.extend(files), the return
\* when max_results is reached, the next token, the break without one
PageRequest ==
    /\ pager.pc = "loop"
    /\ Len(pager.requests) < MaxPages
    /\ \E answered \in BOOLEAN :
          IF ~answered
          THEN pager' = [pager EXCEPT !.pc = "done", !.res = "raise",
                                      !.requests = Append(@, pager.page_token)]
          ELSE LET response == Response(backendPages, pager.page_token)
                   results == pager.results \o response.files
                   requested == [pager EXCEPT !.results = results,
                                              !.requests = Append(@, pager.page_token)]
               IN  IF ReachedMax(pager.max_results, results)
                   THEN pager' = [requested EXCEPT
                                    !.pc = "done", !.res = "ok",
                                    !.out = Truncate(results, pager.max_results[1])]
                   ELSE IF response.nextPageToken = NoToken
                   THEN pager' = [requested EXCEPT
                                    !.pc = "done", !.res = "ok", !.out = results,
                                    !.page_token = NoToken]
                   ELSE pager' = [requested EXCEPT
                                    !.page_token = response.nextPageToken]
    /\ UNCHANGED backendPages

(***************************************************************************)
(* Specifications                                                          *)
(***************************************************************************)
vars == <<cacheVars, retryVars, storeVars, driveVars, pureVars>>

InitCache == CacheInit /\ RetryIdle /\ StoreIdle /\ DriveIdle /\ PureIdle

NextCache ==
    \/ \E key \in Keys, data \in Values : SetCache(key, data) /\ UNCHANGED <<retryVars, storeVars, driveVars, pureVars>>
    \/ \E key \in Keys : GetCached(key) /\ UNCHANGED <<retryVars, storeVars, driveVars, pureVars>>
    \/ \E pattern \in Patterns : InvalidateCache(pattern) /\ UNCHANGED <<retryVars, storeVars, driveVars, pureVars>>
    \/ Tick /\ UNCHANGED <<retryVars, storeVars, driveVars, pureVars>>

SpecCache == InitCache /\ [][NextCache]_vars

InitRetry == RetryInit /\ CacheIdle /\ StoreIdle /\ DriveIdle /\ PureIdle

NextRetry ==
    \/ RetryInvoke /\ UNCHANGED <<cacheVars, storeVars, driveVars, pureVars>>
    \/ RetryCall /\ UNCHANGED <<cacheVars, storeVars, driveVars, pureVars>>
    \/ RetrySleep /\ UNCHANGED <<cacheVars, storeVars, driveVars, pureVars>>

SpecRetry == InitRetry /\ [][NextRetry]_vars

InitStore == StoreInit /\ CacheIdle /\ RetryIdle /\ DriveIdle /\ PureIdle

NextStore ==
    \/ \E c \in Collections, data \in Docs :
          SaveBegin(c, data) /\ UNCHANGED <<cacheVars, retryVars, driveVars, pureVars>>
    \/ SaveLocal /\ UNCHANGED <<cacheVars, retryVars, driveVars, pureVars>>
    \/ SaveMirror /\ UNCHANGED <<cacheVars, retryVars, driveVars, pureVars>>
    \/ SaveUpdate /\ UNCHANGED <<cacheVars, retryVars, driveVars, pureVars>>
    \/ SaveUpload /\ UNCHANGED <<cacheVars, retryVars, driveVars, pureVars>>
    \/ \E c \in Collections : Load(c) /\ UNCHANGED <<cacheVars, retryVars, driveVars, pureVars>>
    \/ SyncFromDrive /\ UNCHANGED <<cacheVars, retryVars, driveVars, pureVars>>
    \/ UnlinkDriveFolder /\ UNCHANGED <<cacheVars, retryVars, driveVars, pureVars>>
    \/ \E data \in Docs : SyncedSave(data) /\ UNCHANGED <<cacheVars, retryVars, driveVars, pureVars>>
    \/ \E f \in DOMAIN remote : ExternalDelete(f) /\ UNCHANGED <<cacheVars, retryVars, driveVars, pureVars>>

SpecStore == InitStore /\ [][NextStore]_vars

InitLink == LinkInit /\ CacheIdle /\ RetryIdle /\ DriveIdle /\ PureIdle

NextLink ==
    \/ \E c \in Collections, data \in Docs :
          SaveBegin(c, data) /\ UNCHANGED <<cacheVars, retryVars, driveVars, pureVars>>
    \/ SaveLocal /\ UNCHANGED <<cacheVars, retryVars, driveVars, pureVars>>
    \/ SaveMirror /\ UNCHANGED <<cacheVars, retryVars, driveVars, pureVars>>
    \/ SaveUpdate /\ UNCHANGED <<cacheVars, retryVars, driveVars, pureVars>>
    \/ SaveUpload /\ UNCHANGED <<cacheVars, retryVars, driveVars, pureVars>>
    \/ UnlinkDriveFolder /\ UNCHANGED <<cacheVars, retryVars, driveVars, pureVars>>
    \/ \E folder_id \in {RootId, OtherRootId} :
          LinkDriveFolder(folder_id) /\ UNCHANGED <<cacheVars, retryVars, driveVars, pureVars>>

SpecLink == InitLink /\ [][NextLink]_vars

InitDrive == DriveInit /\ StoreIdle /\ PureIdle

Targets == {f \in DOMAIN dfiles : ~dfiles[f].folder}

NextDrive ==
    \/ \E folder_id \in Folders \cup {RootFolder}, page_size \in PageSizes,
          use_cache \in BOOLEAN,
          k \in FailCounts :
          \E page_token \in PageTokens(folder_id, page_size) :
              ListFiles(folder_id, page_size, page_token, use_cache, k)
              /\ UNCHANGED <<retryVars, storeVars, pureVars>>
    \/ \E folder_id \in {NoPattern, FolderA}, use_cache \in BOOLEAN, k \in FailCounts :
          SearchFiles(<<"x">>, folder_id, use_cache, k) /\ UNCHANGED <<retryVars, storeVars, pureVars>>
    \/ \E file_id \in Targets, use_cache \in BOOLEAN, k \in FailCounts :
          GetFileInfo(file_id, use_cache, k) /\ UNCHANGED <<retryVars, storeVars, pureVars>>
    \/ \E link \in Links, k \in FailCounts :
          ResolveDriveLink(link, k) /\ UNCHANGED <<retryVars, storeVars, pureVars>>
    \/ \E file_id \in Targets, k \in DirectFailCounts :
          ReadFileContent(file_id, k) /\ UNCHANGED <<retryVars, storeVars, pureVars>>
    \/ \E name \in Names, parent_id \in Folders, k \in DirectFailCounts :
          FindFileByName(name, parent_id, k) /\ UNCHANGED <<retryVars, storeVars, pureVars>>
    \/ \E folder_id \in {RootFolder}, max_depth \in Depths, k \in DirectFailCounts :
          GetFolderTree(folder_id, max_depth, k) /\ UNCHANGED <<retryVars, storeVars, pureVars>>
    \/ \E folder_name \in {<<"y">>}, parent_id \in Folders, k \in FailCounts :
          CreateFolder(folder_name, parent_id, k) /\ UNCHANGED <<retryVars, storeVars, pureVars>>
    \/ \E folder_name \in {<<"y">>}, parent_id \in Folders,
          k1 \in {0, max_retries}, k2 \in {0, max_retries} :
          GetOrCreateFolder(parent_id, folder_name, k1, k2)
          /\ UNCHANGED <<retryVars, storeVars, pureVars>>
    \/ \E file_name \in {<<"y">>}, parent_id \in Folders, readable \in BOOLEAN,
          chunks \in 1..MaxChunks, failAt \in 0..MaxChunks :
          /\ failAt <= chunks
          /\ UploadFile(file_name, parent_id, readable, chunks, failAt)
          /\ UNCHANGED <<retryVars, storeVars, pureVars>>
    \/ \E file_id \in Targets, new_name \in {NoId}, k \in DirectFailCounts :
          UpdateFile(file_id, new_name, k) /\ UNCHANGED <<retryVars, storeVars, pureVars>>
    \/ \E file_id \in Targets, new_parent_id \in Folders, k \in FailCounts,
          reread \in BOOLEAN :
          MoveFile(file_id, new_parent_id, k, reread) /\ UNCHANGED <<retryVars, storeVars, pureVars>>
    \/ \E file_id \in Targets, new_name \in Names, k \in FailCounts :
          RenameFile(file_id, new_name, k) /\ UNCHANGED <<retryVars, storeVars, pureVars>>
    \/ \E file_id \in Targets, k1 \in {0, max_retries}, k2 \in FailCounts :
          DeleteFile(file_id, k1, k2) /\ UNCHANGED <<retryVars, storeVars, pureVars>>
    \/ DriveTick /\ UNCHANGED <<retryVars, storeVars, pureVars>>

SpecDrive == InitDrive /\ [][NextDrive]_vars

InitDriveOverlap == OverlapInit /\ StoreIdle /\ PureIdle

SpecDriveOverlap == InitDriveOverlap /\ [][NextDrive]_vars

InitAssign ==
    /\ AssignInit /\ CacheIdle /\ RetryIdle /\ StoreIdle /\ DriveIdle /\ QueryIdle
    /\ ThreadIdle /\ PageIdle

NextAssign ==
    \/ LoadAssignments
          /\ UNCHANGED <<cacheVars, retryVars, storeVars, driveVars, queryVars,
                         threadVars, pageVars>>

SpecAssign == InitAssign /\ [][NextAssign]_vars

InitQuery ==
    /\ QueryInit /\ CacheIdle /\ RetryIdle /\ StoreIdle /\ DriveIdle /\ AssignIdle
    /\ ThreadIdle /\ PageIdle

OthersIdle ==
    UNCHANGED <<cacheVars, retryVars, storeVars, driveVars, assignVars, threadVars, pageVars>>

NextQuery ==
    \/ \E parent_id \in QueryArgs : InParents(parent_id) /\ OthersIdle
    \/ NotTrashed /\ OthersIdle
    \/ \E name \in QueryArgs : NameEquals(name) /\ OthersIdle
    \/ \E query \in QueryArgs : NameContains(query) /\ OthersIdle
    \/ \E mime_type \in QueryArgs : MimeType(mime_type) /\ OthersIdle
    \/ IsFolder /\ OthersIdle
    \/ \E date \in QueryArgs : ModifiedAfter(date) /\ OthersIdle
    \/ Build /\ OthersIdle
    \/ Reset /\ OthersIdle

SpecQuery == InitQuery /\ [][NextQuery]_vars


InitSaveRace == SaveRaceInit /\ CacheIdle /\ RetryIdle /\ DriveIdle /\ AssignIdle /\ QueryIdle /\ PageIdle

SaveRaceOthers == UNCHANGED <<cacheVars, retryVars, driveVars, assignVars, queryVars, pageVars>>

NextSaveRace ==
    \/ \E t \in Threads : ThreadSaveLocal(t) /\ SaveRaceOthers
    \/ \E t \in Threads : ThreadWriteTemp(t) /\ SaveRaceOthers
    \/ \E t \in Threads : ThreadReadBinding(t) /\ SaveRaceOthers
    \/ \E t \in Threads : ThreadUpdate(t) /\ SaveRaceOthers
    \/ \E t \in Threads : ThreadUpload(t) /\ SaveRaceOthers
    \/ \E t \in Threads : ThreadUnlinkTemp(t) /\ SaveRaceOthers

SpecSaveRace == InitSaveRace /\ [][NextSaveRace]_vars


InitCacheRace ==
    /\ CacheRaceInit /\ RetryIdle /\ StoreIdle /\ DriveIdle /\ AssignIdle /\ QueryIdle
    /\ PageIdle

CacheRaceOthers ==
    UNCHANGED <<retryVars, storeVars, driveVars, assignVars, queryVars, pageVars>>

NextCacheRace ==
    \/ \E t \in Threads, key \in RaceKeys : ThreadGetCached(t, key) /\ CacheRaceOthers
    \/ \E t \in Threads : ThreadContains(t) /\ CacheRaceOthers
    \/ \E t \in Threads : ThreadRead(t) /\ CacheRaceOthers
    \/ \E t \in Threads : ThreadTest(t) /\ CacheRaceOthers
    \/ \E t \in Threads : ThreadDel(t) /\ CacheRaceOthers
    \/ \E t \in Threads, key \in RaceKeys, data \in Values :
          ThreadSetCache(t, key, data) /\ CacheRaceOthers
    \/ \E t \in Threads, pattern \in RacePatterns :
          ThreadInvalidate(t, pattern) /\ CacheRaceOthers
    \/ \E t \in Threads : ThreadScan(t) /\ CacheRaceOthers
    \/ \E t \in Threads : ThreadRemove(t) /\ CacheRaceOthers

SpecCacheRace == InitCacheRace /\ [][NextCacheRace]_vars


InitListRace ==
    /\ DriveInit /\ ListRaceInit /\ StoreIdle /\ AssignIdle /\ QueryIdle /\ PageIdle

ListRaceOthers == UNCHANGED <<retryVars, storeVars, assignVars, queryVars, pageVars>>

NextListRace ==
    \/ \E t \in Threads, folder_id \in Folders, use_cache \in BOOLEAN :
          ThreadListFiles(t, folder_id, use_cache) /\ ListRaceOthers
    \/ \E t \in Threads : ThreadLookup(t) /\ ListRaceOthers
    \/ \E t \in Threads : ThreadFetch(t) /\ ListRaceOthers
    \/ \E t \in Threads : ThreadStore(t) /\ ListRaceOthers
    \/ \E t \in Threads, parent_id \in Folders :
          ThreadCreateFolder(t, <<"y">>, parent_id) /\ ListRaceOthers
    \/ \E t \in Threads : ThreadRequest(t) /\ ListRaceOthers
    \/ \E t \in Threads : ThreadInvalidateParent(t) /\ ListRaceOthers

SpecListRace == InitListRace /\ [][NextListRace]_vars


InitPaging ==
    /\ PageInit /\ CacheIdle /\ RetryIdle /\ StoreIdle /\ DriveIdle
    /\ AssignIdle /\ QueryIdle /\ ThreadIdle

PagingOthers ==
    UNCHANGED <<cacheVars, retryVars, storeVars, driveVars, assignVars, queryVars,
                threadVars>>

NextPaging ==
    \/ PageRequest /\ PagingOthers

SpecPaging == InitPaging /\ [][NextPaging]_vars

\* the call runs on its thread until it returns: an iteration that can be
\* taken is taken
SpecPagingLive == SpecPaging /\ WF_vars(NextPaging)

(***************************************************************************)
(* Claims on CachedService (checked under SpecCache)                       *)
(***************************************************************************)

\* C1: _get_cached(k) returns the value of the most recent _set_cache(k, v)
\* exactly when that entry was not invalidated since and now - insertion time
\* < cache_ttl; otherwise (never set, invalidated, or cache_ttl elapsed) it
\* returns None.
C1_GetReturnsLastSetIffFresh ==
    ret.op = "get" =>
        LET k == ret.key
            live == k \in DOMAIN lastSet /\ now - lastSet[k].at < cache_ttl
        IN  /\ live => ret.val = lastSet[k].data
            /\ ~live => ret.val = None

\* C1 witness: a key was set, cache_ttl elapsed with no set or invalidate of it,
\* and _get_cached returned None
C1_Witness ==
    /\ ret.op = "get"
    /\ cache_ttl > 0
    /\ ret.key \in DOMAIN lastSet
    /\ now - lastSet[ret.key].at >= cache_ttl
    /\ ret.val = None

\* C2: _invalidate_cache(pattern) removes exactly the keys that contain pattern
\* and leaves every other key with its value and timestamp; with no pattern the
\* cache is left empty.
C2_InvalidateRemovesExactlyMatching ==
    [][ret'.op = "invalidate" =>
        LET p == ret'.pattern IN
        IF p = NoPattern
        THEN cache' = EmptyMap
        ELSE /\ DOMAIN cache' = {k \in DOMAIN cache : ~Contains(k, p)}
             /\ \A k \in DOMAIN cache' : cache'[k] = cache[k]]_vars

\* C2 witness: an invalidation with a pattern removed one key and kept another
C2_Witness ==
    /\ ret.op = "invalidate"
    /\ ret.pattern # NoPattern
    /\ \E k \in ret.before : k \notin DOMAIN cache
    /\ \E k \in ret.before : k \in DOMAIN cache

(***************************************************************************)
(* Claims on RetryableMixin._retry_request (checked under SpecRetry)       *)
(***************************************************************************)

AllRaise(log) == \A i \in 1..Len(log) : log[i] = "raise"

\* C3: one invocation calls request_func at most max_retries times, makes no call
\* after the first call that returns, and ends without a returning call only
\* after max_retries calls have all failed.
C3_AtMostMaxRetriesCalls ==
    /\ Len(callLog) <= max_retries
    /\ \A i \in 1..(Len(callLog) - 1) : callLog[i] = "raise"
    /\ (rpc = "done" /\ AllRaise(callLog)) => Len(callLog) = max_retries

\* C3 witness: an invocation with max_retries >= 2 failed on every attempt
C3_Witness ==
    /\ rpc = "done"
    /\ max_retries >= 2
    /\ Len(callLog) = max_retries
    /\ AllRaise(callLog)

RECURSIVE Double(_)
Double(n) == IF n = 0 THEN 1 ELSE Double(n - 1) + Double(n - 1)

RECURSIVE SumSeq(_)
SumSeq(q) == IF q = <<>> THEN 0 ELSE q[1] + SumSeq(Tail(q))

RECURSIVE BackoffTotal(_, _)
BackoffTotal(rd, n) ==
    IF n <= 1 THEN 0 ELSE BackoffTotal(rd, n - 1) + rd * Double(n - 2)

\* C4: when every attempt fails, the sleeps are retry_delay * 2^i for
\* i = 0..max_retries-2, none after the final attempt, and they add up to the
\* sum of retry_delay * 2^i over i in 0..max_retries-2.
C4_BackoffSleeps ==
    (rpc = "done" /\ AllRaise(callLog)) =>
        /\ Len(sleeps) = (IF max_retries = 0 THEN 0 ELSE max_retries - 1)
        /\ \A i \in 1..Len(sleeps) : sleeps[i] = retry_delay * Double(i - 1)
        /\ SumSeq(sleeps) = BackoffTotal(retry_delay, max_retries)

\* C4 witness: the defaults (max_retries 3, retry_delay 1), every attempt failed,
\* slept 1s then 2s
C4_Witness ==
    /\ rpc = "done"
    /\ max_retries = 3
    /\ retry_delay = 1
    /\ AllRaise(callLog)
    /\ sleeps = <<1, 2>>

FirstReturn(log) == log[CHOOSE i \in 1..Len(log) : log[i] # "raise"]

\* C5: no exception of request_func reaches the caller: the invocation returns
\* the value of the first attempt that succeeds, and None when every attempt
\* raised.
C5_NeverPropagates ==
    /\ outcome # "raised"
    /\ rpc = "done" =>
        outcome = (IF AllRaise(callLog) THEN None ELSE FirstReturn(callLog))

\* C5 witness: the first attempt raised, a later one returned r1, and r1 was
\* returned
C5_Witness ==
    /\ rpc = "done"
    /\ Len(callLog) >= 2
    /\ callLog[Len(callLog)] = "r1"
    /\ outcome = "r1"

(***************************************************************************)
(* Claims on DataManager (checked under SpecStore)                         *)
(***************************************************************************)

\* C6: after two saves in a row of one collection, with the remote configured,
\* the backend answering every call and nobody else changing the backend
\* meanwhile, the root folder holds exactly one file of the collection's name.
C6_TwoSavesOneRemoteFile ==
    (/\ spc = "done"
     /\ RemoteConfigured
     /\ sv.second
     /\ sv.clean
     /\ ~sv.fault)
    => Cardinality(NamedInRoot(sv.coll)) = 1

\* C7: once the update call of a save on a bound id has not returned a valid
\* result, the binding never again holds that id during the save; the save
\* goes on to upload, and when it returns the binding is the id the upload
\* returned (a file of the root folder with the collection's name and the saved
\* content), or None if the upload failed.
C7_StaleBindingClearedAndRebound ==
    (spc \in {"upload", "done"} /\ sv.where \in {"fallback", "handler"}) =>
        /\ drive_id[sv.coll] # sv.file_id
        /\ spc = "done" =>
            /\ sv.uploaded # None
            /\ sv.uploaded = "failed" => drive_id[sv.coll] = None
            /\ sv.uploaded # "failed" =>
                /\ drive_id[sv.coll] = sv.uploaded
                /\ sv.clean =>
                    /\ sv.uploaded \in DOMAIN remote
                    /\ remote[sv.uploaded].name = sv.coll
                    /\ remote[sv.uploaded].parent = lms_root_id
                    /\ remote[sv.uploaded].content = JsonDump(sv.data)

\* C7 witness: the bound file was deleted externally, the update returned None,
\* and the save uploaded a new file and re-bound to it
C7_Witness ==
    /\ spc = "done"
    /\ sv.where = "fallback"
    /\ sv.file_id \notin DOMAIN remote
    /\ sv.uploaded \in DOMAIN remote
    /\ drive_id[sv.coll] = sv.uploaded

C9_LocalWriteBeforeRemoteCalls ==
    /\ (sv.called \/ spc \in {"update", "upload"}) => sv.wrote
    /\ \A i \in 1..Len(synced.log) :
          synced.log[i] # "local_write" =>
              \E j \in 1..(i - 1) : synced.log[j] = "local_write"

\* C9 witness: a save has issued a remote call and is back at its caller
C9_Witness ==
    /\ spc = "done"
    /\ sv.called
    /\ sv.wrote

C11_LoadReturnsRemoteContent ==
    (/\ loaded.coll # None
     /\ RemoteConfigured
     /\ ~loaded.listFailed
     /\ loaded.remoteVal \notin {None, "raise"})
    => loaded.val = loaded.remoteVal

\* C12: sync_from_drive overwrites the local file of every collection whose
\* file it found by name in the root folder, and returns True exactly when it
\* overwrote at least one local file.
C12_SyncOverwritesEveryFoundCollection ==
    pulled.called =>
        /\ pulled.found \subseteq pulled.overwritten
        /\ pulled.result <=> (pulled.overwritten # {})

(***************************************************************************)
(* Claims on DriveService (checked under SpecDrive)                        *)
(***************************************************************************)

\* p occurs in k: some window of k spells p
Occurs(p, k) ==
    \E off \in 0..(Len(k) - Len(p)) : \A j \in 1..Len(p) : k[off + j] = p[j]

\* no key of the cache contains any of the ids
NoKeyContains(c, ids) == \A key \in DOMAIN c : \A p \in ids : ~Occurs(p, key)

\* C13: after move_file(X, B) succeeded for a file whose parent was A, no
\* cache key containing A or B survives, so the next cached list_files of
\* either folder is fetched from the backend.
C13_MoveInvalidatesOldAndNewParent ==
    (dret.op = "move_file" /\ dret.res = "ok")
    => NoKeyContains(cache, dret.val \cup {dret.folder})

\* the ids whose cache keys a mutating call on the backend state `files`
\* affects: the parent folders it changes the contents of, and the file
AffectedIds(files, r) ==
    CASE r.op = "create_folder" -> {r.folder}
      [] r.op = "move_file" -> files[r.file].parents \cup {r.folder}
      [] OTHER -> files[r.file].parents \cup {r.file}

\* C14: for create_folder, move_file, rename_file and delete_file: when every
\* retry attempt fails the call returns None/False and the cache holds exactly
\* the entries it held before the call; when the call succeeds it returns its
\* result with the affected cache keys removed.
C14_RetriedMutationFrame ==
    [][(/\ dops' = dops + 1
        /\ dret'.op \in {"create_folder", "move_file", "rename_file", "delete_file"})
       => IF dret'.fails >= max_retries
          THEN dret'.res \in {None, "False"} /\ cache' = cache
          ELSE /\ dret'.res \in {"ok", "True"}
               /\ NoKeyContains(cache', AffectedIds(dfiles, dret'))]_vars

\* the positions of the requests of kind req in a request log
Positions(reqs, req) == {i \in 1..Len(reqs) : reqs[i][1] = req}

\* C15: delete_file issues the metadata fetch before the delete request; it
\* returns True exactly when the delete request succeeded within the retry
\* budget, whether or not the fetch succeeded; and when it returns True no
\* cache key containing the file id or a parent id learned from the fetch
\* remains.
C15_DeleteFetchesThenDeletes ==
    dret.op = "delete_file" =>
        LET gets == Positions(dret.reqs, "get")
            dels == Positions(dret.reqs, "delete")
        IN  /\ gets # {} /\ dels # {}
            /\ \A i \in gets, j \in dels : i < j
            /\ Cardinality(dels) <= max_retries
            /\ dret.res \in {"True", "False"}
            /\ dret.res = "True" <=> \E j \in dels : dret.reqs[j][2] = "ok"
            /\ dret.res = "True" => NoKeyContains(cache, dret.val \cup {dret.file})

\* C15 witness: from a warm cache, a delete whose fetch returned the parents
\* succeeded after a failed attempt
C15_Witness ==
    /\ dret.op = "delete_file"
    /\ dret.res = "True"
    /\ dret.info
    /\ dret.val = {FolderA}
    /\ dret.fails = 1
    /\ DOMAIN cache = {FilesKey(FolderB, PageSize, NoToken)}

\* C16: no public DriveService operation raises to its caller when a backend
\* request it issues fails: each returns None, False or an empty list.
C16_NoOperationRaises == dret.res # "raise"

\* C17: every remote read goes through _retry_request: when the backend fails
\* a read request on fewer than max_retries consecutive attempts and then
\* answers, the operation returns the successful result.
C17_ReadsRetryTransientFailures ==
    (/\ dret.op \in {"list_files", "search_files", "get_file_info",
                     "read_file_content", "find_file", "get_folder_tree"}
     /\ dret.fails > 0
     /\ dret.fails < max_retries)
    => /\ dret.reqs # <<>>
       /\ dret.reqs[Len(dret.reqs)][2] = "ok"
       /\ dret.res # "raise"

\* C18: upload_file is never retried: one call starts at most one upload
\* session, a failed chunk makes it return None at once, and the parent's
\* cache entries are invalidated exactly when the upload completed.
C18_UploadOnceInvalidateOnSuccess ==
    [][(dops' = dops + 1 /\ dret'.op = "upload_file")
       => LET reqs == dret'.reqs
              failed == {i \in 1..Len(reqs) : reqs[i][2] = "fail"}
          IN  /\ Cardinality(Positions(reqs, "session")) <= 1
              /\ Cardinality(failed) <= 1
              /\ \A i \in failed : i = Len(reqs)
              /\ failed # {} => dret'.res = None
              /\ dret'.invalidated <=> dret'.res = "ok"
              /\ IF dret'.res = "ok"
                 THEN /\ DOMAIN cache' =
                            {key \in DOMAIN cache : ~Occurs(dret'.folder, key)}
                      /\ \A key \in DOMAIN cache' : cache'[key] = cache[key]
                 ELSE cache' = cache]_vars

\* C18 witness: an upload whose second chunk failed returned None and left a
\* warm cache as it was
C18_Witness ==
    /\ dret.op = "upload_file"
    /\ dret.res = None
    /\ Len(dret.reqs) = 3
    /\ dret.reqs[3] = <<"chunk", "fail">>
    /\ FilesKey(dret.folder, PageSize, NoToken) \in DOMAIN cache

\* C19: read-your-writes through the cache: after successful mutations made
\* through the service, with no other change of the backend, a cached
\* list_files(P) or get_file_info(f) never returns a snapshot older than a
\* mutation that changed P's contents or f's metadata, that is, it returns
\* what the backend holds.
C19_ReadYourWrites ==
    (dret.allOk /\ dret.useCache /\ dret.res = "ok")
    => /\ dret.op = "list_files" => dret.val = ListResponse(dfiles, dret.folder, dret.pageSize, dret.token)
       /\ (dret.op = "get_file_info" /\ dret.file \in DOMAIN dfiles)
              => dret.val = GetResponse(dfiles, dret.file)

\* the list_files call r returned the whole listing of its folder in one page
WholeListing(r) == r.token = NoToken /\ r.val.nextPageToken = NoToken

\* a create_folder or upload_file into folder P has just succeeded
CreatedIn ==
    dret.op \in {"create_folder", "upload_file"} /\ dret.res = "ok"

Renamed == dret.op = "rename_file" /\ dret.res = "ok"

Unconfigured(root) == drive_service = None \/ root = None

\* C22: while drive_service is None or lms_root_id is None (never configured,
\* or unlinked at runtime), load, save and sync_from_drive issue no remote
\* call and leave the three bindings unchanged; load returns the content of
\* the local file, or the default when that file is absent or unparsable, and
\* sync_from_drive returns False.
C22_UnconfiguredIsLocalOnly ==
    /\ [][Unconfigured(lms_root_id) /\ Unconfigured(lms_root_id')
             => drive_id' = drive_id]_vars
    /\ []((loaded.coll # None /\ Unconfigured(loaded.root))
            => /\ ~loaded.issued
               /\ loaded.val = IF loaded.local.kind = "json"
                                THEN loaded.local.doc ELSE EmptyList)
    /\ []((sv.coll # None /\ Unconfigured(sv.root)) => ~sv.called)
    /\ []((pulled.called /\ Unconfigured(pulled.root))
            => ~pulled.issued /\ ~pulled.result /\ pulled.overwritten = {})

C22_Witness ==
    /\ drive_service # None /\ lms_root_id = None
    /\ \E c \in Collections : drive_id[c] # None
    /\ loaded.coll = "students.json" /\ loaded.root = None
    /\ loaded.local.kind = "json" /\ loaded.val = loaded.local.doc


\* ---- claims on load_assignments (checked under SpecAssign) ----

\* C23: after load_assignments returns, every returned assignment has an
\* identifier, the identifiers are pairwise distinct, and the repaired list
\* has been saved whenever the load changed an identifier.
C23_LoadedIdsPresentAndDistinct ==
    aloaded.ran =>
        /\ \A n \in 1..Len(aloaded.val) : aloaded.val[n].id # NoId
        /\ \A n \in 1..Len(aloaded.val), k \in 1..Len(aloaded.val) :
               n # k => aloaded.val[n].id # aloaded.val[k].id
        /\ aloaded.val # aloaded.input => aloaded.saved /\ astored = aloaded.val


\* ---- claims on DriveService, continued (checked under SpecDrive) ----

\* the tree returned for folder parent at depth level: None at level max_depth,
\* else exactly the sub-folders of parent, each with such a tree one level down
RECURSIVE TreeShape(_, _, _, _)
TreeShape(tree, parent, level, max_depth) ==
    IF level = max_depth
    THEN tree.none
    ELSE /\ ~tree.none
         /\ {e.id : e \in tree.list} =
                {f \in DOMAIN dfiles : parent \in dfiles[f].parents /\ dfiles[f].folder}
         /\ \A e \in tree.list : TreeShape(e.children, e.id, level + 1, max_depth)

IdAfter(l, prefixes) ==
    LET at == {i \in 1..(Len(l) - 1) : l[i] \in prefixes /\ l[i + 1] \in WordTokens}
    IN  IF at = {} THEN NoId ELSE <<l[(CHOOSE i \in at : \A j \in at : i <= j) + 1]>>

\* the identifier resolve_drive_link is to take from l
LinkId(l) ==
    IF IdAfter(l, {"/folders/"}) # NoId THEN IdAfter(l, {"/folders/"})
    ELSE IF IdAfter(l, {"/file/d/"}) # NoId THEN IdAfter(l, {"/file/d/"})
    ELSE IF IdAfter(l, {"?id=", "&id="}) # NoId THEN IdAfter(l, {"?id=", "&id="})
    ELSE IF UrlLen(l) > 20 /\ ~HasSlash(l) THEN l
    ELSE NoId

\* C25: resolve_drive_link(s) takes the identifier from the first matching
\* pattern in the order folder link, file link, id= parameter; with no match
\* it accepts s itself only when s is longer than 20 characters and holds no
\* '/'; it returns (id, metadata) only if the metadata fetch for that id
\* succeeds, and (None, None) otherwise.
C25_ResolveDriveLink ==
    dret.op = "resolve_drive_link" =>
        /\ dret.file = LinkId(dret.link)
        /\ dret.res \in {"ok", None}
        /\ LinkId(dret.link) = NoId => dret.res = None /\ dret.reqs = <<>>
        /\ dret.res = "ok"
              => /\ dret.val.id = LinkId(dret.link)
                 /\ dret.hit \/ dret.reqs[Len(dret.reqs)] = <<"get", "ok">>
        /\ dret.res = None => dret.val = None
        /\ (dret.reqs # <<>> /\ dret.reqs[Len(dret.reqs)][2] = "fail") => dret.res = None

C25_Witness ==
    /\ dret.op = "resolve_drive_link" /\ dret.link = <<Host, "/file/d/", "X", "/folders/", "A">>
    /\ dret.res = "ok" /\ dret.val.id = FolderA /\ ~dret.hit


\* C26: for a folder holding more files than page_size (150 against 100; here
\* 2 against 1), list_files(folder, page_size) returns exactly page_size files
\* and a nextPageToken, and the follow-up with that token returns the
\* remaining files and no token, also when both calls are served from the
\* cache: a page is cached under, and served for, its own (folder, page_size,
\* page_token) only.
C26_PagedListing ==
    /\ [](dret.op = "list_files" /\ dret.res = "ok"
            => LET n == Cardinality(Children(dfiles, dret.folder))
                   first == TokenOffset(dret.token)
                   last == first + dret.pageSize
               IN  /\ ~dret.hit
                        => /\ Cardinality(dret.val.files) =
                                  IF last <= n THEN dret.pageSize
                                  ELSE IF first <= n THEN n - first ELSE 0
                           /\ \A e \in dret.val.files :
                                  dret.folder \in dfiles[e.id].parents
                           /\ (dret.val.nextPageToken # NoToken) = (last < n)
                   /\ Cardinality(dret.val.files) <= dret.pageSize
                   /\ dret.val.nextPageToken \in {NoToken, ToString(last)}
                   /\ dret.val.nextPageToken # NoToken
                        => Cardinality(dret.val.files) = dret.pageSize)
    /\ [][(/\ dret.op = "list_files" /\ dret.res = "ok"
           /\ dret.val.nextPageToken # NoToken
           /\ dret'.op = "list_files" /\ dret'.res = "ok" /\ dops' = dops + 1
           /\ dret'.folder = dret.folder /\ dret'.pageSize = dret.pageSize
           /\ dret'.token = dret.val.nextPageToken)
          => /\ dret'.val # dret.val
             /\ (~dret.hit /\ ~dret'.hit)
                   => /\ dret'.val.files \cap dret.val.files = {}
                      /\ Cardinality(Children(dfiles, dret.folder)) <= 2 * dret.pageSize
                            => /\ dret'.val.nextPageToken = NoToken
                               /\ {e.id : e \in dret.val.files \cup dret'.val.files}
                                     = Children(dfiles, dret.folder)]_vars

C26_Witness ==
    /\ dret.op = "list_files" /\ dret.folder = RootFolder /\ dret.pageSize = 1
    /\ dret.token = ToString(1) /\ dret.useCache /\ dret.hit /\ dops = 2
    /\ {e.id : e \in dret.val.files} = {FolderB}
    /\ dret.val.nextPageToken = NoToken


\* ---- claims on DriveQueryBuilder (checked under SpecQuery) ----

\* the clause a call is to add, its argument with every quote escaped
EscapedClause(call) ==
    LET arg == EscapeQuotes(call.arg)
    IN  CASE call.method = "in_parents" -> <<Quote>> \o arg \o <<Quote, " in parents">>
          [] call.method = "not_trashed" -> <<"trashed=false">>
          [] call.method = "name_equals" -> <<"name = ", Quote>> \o arg \o <<Quote>>
          [] call.method = "name_contains" -> <<"name contains ", Quote>> \o arg \o <<Quote>>
          [] call.method = "mime_type" -> <<"mimeType=", Quote>> \o arg \o <<Quote>>
          [] OTHER -> <<"modifiedTime > ", Quote>> \o arg \o <<Quote>>

\* C27: build() returns the clauses joined by " and " in the order they were
\* added, None when none was added, and every argument embedded in a clause
\* (name_equals, name_contains, in_parents, mime_type, modified_after) has
\* each single quote escaped with a backslash.
C27_BuildJoinsEscapedClauses ==
    built.called =>
        /\ built.none = (qcalls = <<>>)
        /\ qcalls # <<>>
             => built.text = JoinAnd([n \in 1..Len(qcalls) |-> EscapedClause(qcalls[n])])


\* C28: search_files with its default use_cache=False neither reads nor writes
\* the cache: it always issues a backend request, leaves every cache entry
\* unchanged, and returns an empty list (not None) when the request fails
\* after all retries.
C28_UncachedSearchLeavesCache ==
    [][(dret'.op = "search_files" /\ dops' = dops + 1 /\ ~dret'.useCache)
          => /\ cache' = cache
             /\ ~dret'.hit
             /\ dret'.reqs # <<>>
             /\ dret'.res \in {"ok", "empty"}
             /\ dret'.reqs[Len(dret'.reqs)][2] = "fail"
                   => dret'.res = "empty" /\ dret'.val = {}]_vars

C28_Witness ==
    /\ dret.op = "search_files" /\ ~dret.useCache /\ dret.res = "ok" /\ dret.val # {}
    /\ cache = WarmCache(dfiles) /\ dops = 1


\* the binding of c names a file of that name in the root folder, or is None
\* when the root folder holds none
Resolved(c) ==
    IF NamedInRoot(c) = {} THEN drive_id[c] = None ELSE drive_id[c] \in NamedInRoot(c)

\* C29: after sync_from_drive or load has run with the remote configured and
\* reachable, each binding (after a load: that of the loaded collection) is
\* the id of the non-folder file of the collection's name in the root folder,
\* or None if there is none, so a save that follows updates that file and
\* never uploads a second file of the same name.
C29_BindingsResolvedAfterLoadOrSync ==
    /\ (loaded.coll # None /\ loaded.at = ops /\ RemoteConfigured /\ ~loaded.listFailed)
          => Resolved(loaded.coll)
    /\ (pulled.called /\ pulled.at = ops /\ RemoteConfigured /\ pulled.answered)
          => \A c \in Collections : Resolved(c)
    /\ (spc = "done" /\ sv.followed /\ sv.clean /\ ~sv.fault
         /\ sv.uploaded \notin {None, "failed"})
          => NamedInRoot(sv.coll) = {sv.uploaded}


\* the binding of the saved collection is None, or names a remote file that
\* holds the documents just saved and was written by a call of this save
BindingInSync ==
    /\ \/ drive_id[sv.coll] = None
       \/ /\ drive_id[sv.coll] \in DOMAIN remote
          /\ RemoteDoc(drive_id[sv.coll]) = sv.data
    /\ drive_id[sv.coll] # None => sv.mirrored

\* C30 as stated: immediately after any save returns, the collection's binding
\* is None or the id of a remote file whose content equals the documents just
\* saved, and it is non-None only if an update or upload call of that save
\* returned a valid result.
C30_BindingInSyncAfterAnySave ==
    (spc = "done" /\ sv.clean) => BindingInSync

\* C30, amended: the same, for every save that issued a remote call (the
\* remote was configured and the temp file was written).
C30_BindingInSyncAfterMirroredSave ==
    (spc = "done" /\ sv.clean /\ sv.called) => BindingInSync

C30_Witness ==
    /\ spc = "done" /\ sv.clean /\ sv.called /\ sv.uploaded = None
    /\ sv.data = "d2" /\ drive_id[sv.coll] # None
    /\ RemoteDoc(drive_id[sv.coll]) = "d2"

(***************************************************************************)
(* Claims on concurrent callers                                            *)
(***************************************************************************)

\* C31: when two threads save the same collection concurrently on one
\* DataManager with the remote configured and no binding yet, and neither the
\* disk nor the backend fails a call, both saves end with exactly one remote
\* file of the collection in the root folder and with the binding holding the
\* id of that file.
C31_ConcurrentSavesOneRemoteFile ==
    (\A t \in Threads : tpc[t] = "done" /\ ~tloc[t].fault)
        => /\ Cardinality(NamedInRoot(SavedCollection)) = 1
           /\ drive_id[SavedCollection] \in NamedInRoot(SavedCollection)

(***************************************************************************)
(* Claims on the read cache of DriveService (checked under SpecDrive)      *)
(***************************************************************************)
CachedReads == {"list_files", "get_file_info"}

\* the cache key of a list_files or get_file_info call
ReadKey(r) ==
    IF r.op = "list_files" THEN FilesKey(r.folder, ToString(r.pageSize), r.token)
    ELSE FileInfoKey(r.file)

SameRead(r, q) ==
    /\ r.op = q.op /\ r.useCache = q.useCache
    /\ r.folder = q.folder /\ r.pageSize = q.pageSize /\ r.token = q.token
    /\ r.file = q.file

\* C32: a list_files or get_file_info call with use_cache=True that finds an
\* entry of its key younger than cache_ttl issues no backend request and
\* returns the stored value, leaving the cache as it is; every successful call
\* leaves its value stored under its key (stamped with the time of the call
\* unless the cache answered it), so a call repeated within cache_ttl returns
\* the same value without a request; a call that finds no such entry contacts
\* the backend; a failed call (None) stores nothing, and the next call with
\* the same parameters contacts the backend again.
C32_CachedReadsWithinTtl ==
    [][dret'.op \in CachedReads /\ dops' = dops + 1 =>
        LET key == ReadKey(dret')
            fresh == key \in DOMAIN cache /\ now - cache[key].timestamp < cache_ttl
        IN  /\ dret'.useCache /\ fresh =>
                /\ dret'.reqs = <<>>
                /\ dret'.res = "ok" /\ dret'.val = cache[key].data
                /\ cache' = cache
            /\ ~(dret'.useCache /\ fresh) => dret'.reqs # <<>>
            /\ dret'.res = "ok" =>
                /\ key \in DOMAIN cache'
                /\ cache'[key].data = dret'.val
                /\ dret'.reqs # <<>> => cache'[key].timestamp = now'
            /\ dret'.res # "ok" =>
                /\ dret'.val = None
                /\ \A k \in DOMAIN cache' : k \in DOMAIN cache /\ cache'[k] = cache[k]
                /\ dret'.useCache => key \notin DOMAIN cache'
            /\ dret.op \in CachedReads /\ SameRead(dret, dret') =>
                /\ dret.res = "ok" /\ dret'.useCache =>
                      dret'.reqs = <<>> /\ dret'.val = dret.val
                /\ dret.res # "ok" => dret'.reqs # <<>>
    ]_vars

\* a listing of the root folder answered from the entry that the call before
\* it stored
C32_Witness ==
    /\ dops = 2
    /\ dret.op = "list_files" /\ dret.hit /\ dret.reqs = <<>>
    /\ dret.folder = RootFolder /\ dret.pageSize = DefaultPageSize

(***************************************************************************)
(* Claims on the scope of invalidation (checked under SpecDriveOverlap)    *)
(***************************************************************************)
\* the ids a mutating call is about: the folder it puts a file into, the
\* file it changes and the parents of that file
MutatedIds(files, r) ==
    CASE r.op \in {"create_folder", "upload_file"} -> {r.folder}
      [] r.op = "move_file" -> files[r.file].parents \cup {r.folder, r.file}
      [] OTHER -> files[r.file].parents \cup {r.file}

\* the folder or file whose listing or metadata a cache key holds
KeyOwner(key) ==
    IF key[1] = "files_" THEN SubSeq(key, 2, Len(key) - 4) ELSE Tail(key)

Succeeded(r) == r.op \in Mutations /\ r.res \in {"ok", "True"}

\* C33 as stated: a successful mutation leaves every cached listing and
\* metadata entry of a folder or file whose id is not one of the affected ids
\* in the cache, with the same value and timestamp.
C33_MutationKeepsOtherIds ==
    [][dops' = dops + 1 /\ Succeeded(dret') =>
        \A key \in DOMAIN cache :
            /\ key[1] \in {"files_", "fileinfo_"}
            /\ KeyOwner(key) \notin MutatedIds(dfiles, dret')
            => key \in DOMAIN cache' /\ cache'[key] = cache[key]]_vars

\* C33: a successful mutation leaves every cache entry whose key contains
\* none of the affected ids as a substring in the cache, with the same value
\* and timestamp.
C33_MutationKeepsKeysWithoutIds ==
    [][dops' = dops + 1 /\ Succeeded(dret') =>
        \A key \in DOMAIN cache :
            (\A id \in MutatedIds(dfiles, dret') : ~Occurs(id, key))
            => key \in DOMAIN cache' /\ cache'[key] = cache[key]]_vars

\* a folder was created in the folder whose id contains the other folder's
\* id, and the listing of that other folder is still cached
C33_Witness ==
    /\ dret.op = "create_folder" /\ dret.res = "ok" /\ dret.folder = FolderAB
    /\ FilesKey(FolderAB, PageSize, NoToken) \notin DOMAIN cache
    /\ FilesKey(FolderA, PageSize, NoToken) \in DOMAIN cache
    /\ cache[FilesKey(FolderA, PageSize, NoToken)].timestamp = 0

(***************************************************************************)
(* Claims on changing the root folder (checked under SpecLink)             *)
(***************************************************************************)

\* C34: whatever root folder is configured at runtime, a save never changes
\* the content of a remote file outside the root folder configured at that
\* moment, and a save that mirrored without a fault leaves a file of the
\* collection with the saved documents in the configured root.
C34_SaveMirrorsIntoCurrentRoot ==
    /\ [][\A f \in DOMAIN remote :
            (f \in DOMAIN remote' /\ remote'[f].content # remote[f].content)
                => remote[f].parent = lms_root_id]_vars
    /\ [](spc = "done" /\ sv.mirrored /\ ~sv.fault =>
            \E f \in NamedInRoot(sv.coll) : remote[f].content = JsonDump(sv.data))

(***************************************************************************)
(* Claims on FolderHelper (checked under SpecDrive)                        *)
(***************************************************************************)
\* the call created a folder on the backend
Created(r) == \E i \in 1..Len(r.reqs) : r.reqs[i] = <<"create", "ok">>

\* C35: get_or_create_folder is idempotent: a call that directly follows a
\* call with the same (parent, name) that returned a folder creates no
\* folder, whatever the cache holds and also when its listing request fails
\* after all retries.
C35_GetOrCreateFolderIdempotent ==
    [][(/\ dops' = dops + 1
        /\ dret.op = "get_or_create_folder" /\ dret'.op = "get_or_create_folder"
        /\ dret'.folder = dret.folder /\ dret'.name = dret.name
        /\ dret.res = "ok")
       => ~Created(dret')]_vars

\* C36: when two threads run _get_cached, _set_cache and _invalidate_cache
\* concurrently on one cache, no cache operation fails: every call completes
\* without raising, and a _get_cached that found its key expired returns None.
C36_NoCacheOperationFails ==
    \A t \in Threads :
        /\ tloc[t].res # "raise"
        /\ tpc[t] = "done" /\ tloc[t].op = "get" /\ ~Fresh(tloc[t].ts, now, cache_ttl)
              => tloc[t].res = None

\* C37: when a list_files(P) of one thread and a successful create_folder
\* under P of another thread of the same DriveService have both returned, the
\* cache holds no listing of P that was fetched before the folder was
\* created: a cached listing of P is the listing the backend now gives.
C37_NoStaleListingAfterOverlap ==
    \A t, u \in Threads :
        (/\ tpc[t] = "done" /\ tloc[t].op = "list_files"
         /\ tpc[u] = "done" /\ tloc[u].op = "create_folder" /\ tloc[u].res = "ok"
         /\ tloc[u].folder = tloc[t].folder
         /\ FilesKey(tloc[t].folder, PageSize, NoToken) \in DOMAIN cache)
        => cache[FilesKey(tloc[t].folder, PageSize, NoToken)].data
              = ListResponse(dfiles, tloc[t].folder, DefaultPageSize, NoToken)

(***************************************************************************)
(* Claims on execute_with_pagination (checked under SpecPagingLive)        *)
(***************************************************************************)
\* the files of the pages requested, in the order of the requests
RECURSIVE FilesOf(_, _)
FilesOf(pages, tokens) ==
    IF tokens = <<>> THEN <<>>
    ELSE PageFiles(Head(tokens), pages[Head(tokens)].n) \o FilesOf(pages, Tail(tokens))

\* following the tokens from page_token, the backend gets to a page without
\* a token within `fuel` pages
RECURSIVE ChainEnds(_, _, _)
ChainEnds(pages, page_token, fuel) ==
    /\ fuel > 0
    /\ \/ pages[page_token].nextPageToken = NoToken
       \/ ChainEnds(pages, pages[page_token].nextPageToken, fuel - 1)

Limit(p) == IF p.max_results # <<>> /\ p.max_results[1] > 0 THEN p.max_results ELSE <<>>

\* C38: when execute_with_pagination has returned, it requested the first
\* page without a token and every later page with exactly the token of the
\* page before; no page before the last one lacked a token or reached
\* max_results; the last page lacks a token or reaches max_results; it
\* returned the files of the pages requested, concatenated in page order and,
\* with max_results = m > 0, cut to at most m files.  It terminates whenever
\* the chain of tokens of the backend gets to a page without a token.
C38_PaginationChainsTokens ==
    /\ [](pager.pc = "done" /\ pager.res = "ok" =>
            LET reqs == pager.requests
                n == Len(reqs)
                all == FilesOf(backendPages, reqs)
                lim == Limit(pager)
                Upto(i) == FilesOf(backendPages, SubSeq(reqs, 1, i))
            IN  /\ n >= 1 /\ reqs[1] = NoToken
                /\ \A i \in 2..n : reqs[i] = backendPages[reqs[i - 1]].nextPageToken
                /\ \A i \in 1..(n - 1) :
                      /\ backendPages[reqs[i]].nextPageToken # NoToken
                      /\ lim # <<>> => Len(Upto(i)) < lim[1]
                /\ \/ backendPages[reqs[n]].nextPageToken = NoToken
                   \/ lim # <<>> /\ Len(all) >= lim[1]
                /\ IF lim # <<>> /\ Len(all) >= lim[1]
                   THEN pager.out = SubSeq(all, 1, lim[1])
                   ELSE pager.out = all
                /\ lim # <<>> => Len(pager.out) <= lim[1])
    /\ (ChainEnds(backendPages, NoToken, Cardinality(AllTokens)) => <>(pager.pc = "done"))

\* a call with max_results = 3 that returned after its second page, cutting
\* the four files of two pages to three, on a backend that had a third page
C38_Witness ==
    /\ pager.pc = "done" /\ pager.res = "ok"
    /\ pager.max_results = <<3>>
    /\ Len(pager.requests) = 2
    /\ Len(pager.results) = 4 /\ Len(pager.out) = 3
    /\ backendPages[pager.requests[2]].nextPageToken # NoToken

====
